---- MODULE Spec2Model ----
(***************************************************************************)
(* CrisGo: the incident-aware route-cost model, the route selector and the *)
(* avoidance helpers of src/src/lib/gps-utils.ts, and the page component   *)
(* of src/src/app/page.tsx.                                                *)
(*                                                                         *)
(* Coordinates are modelled in a local metric frame: a coordinate          *)
(* <<lat, lng>> is a pair of integer offsets in metres from a reference    *)
(* point.  calculateDistance is the planar distance of the two points,     *)
(* rounded up to a whole metre; every comparison the code makes on a       *)
(* distance is "d <= T" with an integer T, and d <= T holds exactly when   *)
(* the rounded-up d is <= T, so the rounding changes no branch.            *)
(***************************************************************************)
EXTENDS Integers, Sequences, FiniteSets, TLC

VARIABLES
    routeCoordinates,   \* calculateRouteCost argument: sequence of <<lat, lng>>
    distance,           \* calculateRouteCost argument: route distance (m)
    duration,           \* calculateRouteCost argument: route duration (s)
    incidents,          \* calculateRouteCost argument: sequence of Incident
    costResult,         \* what calculateRouteCost returned for the arguments, or NoResult
    grPc,               \* where the getRoute call stands
    grArgs,             \* the arguments of the getRoute call
    grEvents,           \* provider requests issued and settled during the call, in order
    directRoute,        \* getRoute's local directRoute (Null until Valhalla produced one)
    grResult,           \* the value the getRoute promise settled with
    grResponses,        \* what the network delivered to the call so far, in order
    prevCall,           \* the completed call the current one repeats, or NoCall
    home,               \* the useState values of Home (page.tsx)
    calcs,              \* the handleCalculateRoute invocations in flight, oldest first
    geo,                \* navigator.geolocation: active watches, pending position request
    wpArgs,             \* generateAvoidanceWaypoints arguments
    wpPc,               \* "ready" before the call, "returned" after it
    allWaypoints,       \* what generateAvoidanceWaypoints returned
    checkArgs,          \* checkRouteForIncidents arguments
    checkPc,            \* "ready" before the call, "returned" after it
    nearbyIncidents,    \* what checkRouteForIncidents returned
    nwArgs,             \* findNextWaypoint arguments
    nwPc,               \* "ready" before the call, "returned" after it
    nwResult,           \* what findNextWaypoint returned
    proxArgs,           \* checkProximityToIncidents arguments
    proxPc,             \* "ready" before the call, "returned" after it
    proxResult,         \* what checkProximityToIncidents returned
    prPc,               \* where the POST /api/report-incident/process handler stands
    prEnv,              \* the environment of the handler: is GEMINI_API_KEY configured
    prLocals,           \* the handler's locals: transcriptText, extractedData, geocodeData, coordinates
    prRequests,         \* the services the handler has called, in order
    prResponse,         \* the response the handler returned, or Null
    dlg,                \* VoiceReportDialog: the open prop and the state status, conversationId
    sdk,                \* the ElevenLabs session behind useConversation and the callbacks it holds
    starts,             \* the invocations of startConversation in flight
    calls,              \* the invocations of handleEndCall in flight
    stops,              \* how many stopConversation calls of the open effect await endSession
    dlgLog              \* the dialog so far: times opened, conversation ids posted and reported

costVars == <<routeCoordinates, distance, duration, incidents, costResult>>

routeVars == <<grPc, grArgs, grEvents, directRoute, grResult, grResponses, prevCall>>

pageVars == <<home, calcs, geo>>

waypointVars == <<wpArgs, wpPc, allWaypoints>>

checkVars == <<checkArgs, checkPc, nearbyIncidents>>

nextWaypointVars == <<nwArgs, nwPc, nwResult>>

proximityVars == <<proxArgs, proxPc, proxResult>>

processVars == <<prPc, prEnv, prLocals, prRequests, prResponse>>

dialogVars == <<dlg, sdk, starts, calls, stops, dlgLog>>

vars == <<routeCoordinates, distance, duration, incidents, costResult,
          grPc, grArgs, grEvents, directRoute, grResult, grResponses, prevCall,
          home, calcs, geo, wpArgs, wpPc, allWaypoints,
          checkArgs, checkPc, nearbyIncidents,
          nwArgs, nwPc, nwResult,
          proxArgs, proxPc, proxResult,
          prPc, prEnv, prLocals, prRequests, prResponse,
          dlg, sdk, starts, calls, stops, dlgLog>>

\* what the operations of one component leave alone
exceptCost == <<routeVars, pageVars, waypointVars, checkVars, nextWaypointVars, proximityVars, processVars, dialogVars>>

exceptRoute == <<costVars, pageVars, waypointVars, checkVars, nextWaypointVars, proximityVars, processVars, dialogVars>>

exceptPage == <<costVars, routeVars, waypointVars, checkVars, nextWaypointVars, proximityVars, processVars, dialogVars>>

exceptWaypoints == <<costVars, routeVars, pageVars, checkVars, nextWaypointVars, proximityVars, processVars, dialogVars>>

exceptCheck == <<costVars, routeVars, pageVars, waypointVars, nextWaypointVars, proximityVars, processVars, dialogVars>>

exceptNextWaypoint == <<costVars, routeVars, pageVars, waypointVars, checkVars, proximityVars, processVars, dialogVars>>

exceptProximity == <<costVars, routeVars, pageVars, waypointVars, checkVars, nextWaypointVars, processVars, dialogVars>>

exceptProcess == <<costVars, routeVars, pageVars, waypointVars, checkVars, nextWaypointVars, proximityVars, dialogVars>>

exceptDialog == <<costVars, routeVars, pageVars, waypointVars, checkVars, nextWaypointVars, proximityVars, processVars>>

-----------------------------------------------------------------------------
(* Bounds of the input space *)

MaxRouteLen == 2
MaxIncidents == 2

\* incidents reported by voice, and handleCalculateRoute invocations in flight
MaxReports == 1
MaxCalcs == 1

\* in the specification of overlapping route calculations, this many
\* handleCalculateRoute invocations may be in flight
MaxOverlap == 2

-----------------------------------------------------------------------------
(* Program constants *)

INCIDENT_WEIGHTS == [high |-> 500000, medium |-> 7000, low |-> 3000]

HIGH_CRED_PENALTY_ZONES == [innerZone |-> 200, middleZone |-> 400, outerZone |-> 600]

INCIDENT_DETECTION_RADIUS == 600

\* JavaScript's Infinity: larger than every distance of the model
Infinity == 1000000000

\* "calculateRouteCost has not returned yet": no cost is negative
NoResult == [cost |-> -1, penalised |-> <<>>]

-----------------------------------------------------------------------------
(* Input universe *)

Credibility == {"high", "medium", "low"}

IncidentIds == {"a", "b"}

\* vertices a route may visit
RoutePoints == {<<0, 0>>, <<0, 300>>}

\* incident positions; their distances to <<0, 0>> are 150, 200, 201, 400,
\* 401, 600 and 601 m, on both sides of every threshold of the cost model
CorePoints == {<<150, 0>>, <<600, 0>>, <<601, 0>>}
GradientPoints == {<<200, 0>>, <<201, 0>>, <<400, 0>>, <<401, 0>>}
IncidentPoints == CorePoints \cup GradientPoints

Incident(id, p, cred) == [id |-> id, lat |-> p[1], lng |-> p[2], credibility |-> cred]

IncidentUniverse ==
    {Incident(id, p, c) : id \in IncidentIds, p \in CorePoints, c \in Credibility}
    \cup {Incident("a", p, "high") : p \in GradientPoints}

\* <<distance, duration>> of a route
BaseInputs == {<<0, 0>>, <<1000, 120>>}

RECURSIVE SeqsUpTo(_, _)
SeqsUpTo(S, n) ==
    IF n = 0 THEN {<<>>}
    ELSE LET shorter == SeqsUpTo(S, n - 1)
         IN shorter \cup {Append(s, x) : s \in {t \in shorter : Len(t) = n - 1}, x \in S}

Routes == SeqsUpTo(RoutePoints, MaxRouteLen)

-----------------------------------------------------------------------------
(* calculateDistance *)

Min(a, b) == IF a <= b THEN a ELSE b

MaxCoordinate == 1000

\* least r with r * r >= n
CeilSqrt(n) == CHOOSE r \in 0..(2 * MaxCoordinate) : r * r >= n /\ (r = 0 \/ (r - 1) * (r - 1) < n)

\* the vertices of a straight line, 100 m apart, and places on or beside it
LinePoints == {<<0, 100 * k>> : k \in 0..7} \cup {<<0, 150>>, <<0, 420>>}

AllPoints == RoutePoints \cup IncidentPoints \cup LinePoints

DistanceTable ==
    [p \in AllPoints, q \in AllPoints |->
        CeilSqrt((p[1] - q[1]) * (p[1] - q[1]) + (p[2] - q[2]) * (p[2] - q[2]))]

calculateDistance(lat1, lng1, lat2, lng2) == DistanceTable[<<lat1, lng1>>, <<lat2, lng2>>]

-----------------------------------------------------------------------------
(* calculateRouteCost *)

BaseCost_distanceOnly(dist, dur) == dist

\* let cost = distance + duration
BaseCost(dist, dur) == dist + dur

WithinDetectionRadius_anyDistance(minDistanceToIncident) == minDistanceToIncident < Infinity

\* if (minDistanceToIncident <= INCIDENT_DETECTION_RADIUS)
WithinDetectionRadius(minDistanceToIncident) ==
    minDistanceToIncident <= INCIDENT_DETECTION_RADIUS

HighWeight_strictZones(minDistanceToIncident) ==
    IF minDistanceToIncident < HIGH_CRED_PENALTY_ZONES.innerZone
    THEN INCIDENT_WEIGHTS.high
    ELSE IF minDistanceToIncident < HIGH_CRED_PENALTY_ZONES.middleZone
    THEN (INCIDENT_WEIGHTS.high * 5) \div 10
    ELSE IF minDistanceToIncident < HIGH_CRED_PENALTY_ZONES.outerZone
    THEN (INCIDENT_WEIGHTS.high * 2) \div 10
    ELSE 0

\* the gradient of a high-credibility incident; * 0.5 and * 0.2 are exact on 500000
HighWeight(minDistanceToIncident) ==
    IF minDistanceToIncident <= HIGH_CRED_PENALTY_ZONES.innerZone
    THEN INCIDENT_WEIGHTS.high
    ELSE IF minDistanceToIncident <= HIGH_CRED_PENALTY_ZONES.middleZone
    THEN (INCIDENT_WEIGHTS.high * 5) \div 10
    ELSE IF minDistanceToIncident <= HIGH_CRED_PENALTY_ZONES.outerZone
    THEN (INCIDENT_WEIGHTS.high * 2) \div 10
    ELSE 0

FlatWeight_headerComment(credibility) == IF credibility = "medium" THEN 5000 ELSE 2000

\* weight = INCIDENT_WEIGHTS[incident.credibility]
FlatWeight(credibility) == INCIDENT_WEIGHTS[credibility]

IncidentWeight(incident, minDistanceToIncident) ==
    IF incident.credibility = "high"
    THEN HighWeight(minDistanceToIncident)
    ELSE FlatWeight(incident.credibility)

DedupKey_location(incident) == <<incident.lat, incident.lng>>

\* the key of the Set incidentsNearRoute: incident.id
DedupKey(incident) == incident.id

AlreadyCounted_never(incidentsNearRoute, incident) == FALSE

AlreadyCounted_any(incidentsNearRoute, incident) == incidentsNearRoute # {}

\* incidentsNearRoute.has(incident.id)
AlreadyCounted(incidentsNearRoute, incident) == DedupKey(incident) \in incidentsNearRoute

\* incidentsNearRoute.add(incident.id)
MarkCounted(incidentsNearRoute, incident) == incidentsNearRoute \cup {DedupKey(incident)}

AddPenalty_overwrite(cost, weight) == weight

AddPenalty_subtract(cost, weight) == cost - weight

\* cost += weight
AddPenalty(cost, weight) == cost + weight

\* the inner loop: the least distance of the incident to a vertex of the route
RECURSIVE MinDistanceLoop(_, _, _, _)
MinDistanceLoop(coords, incident, k, minDistanceToIncident) ==
    IF k > Len(coords) THEN minDistanceToIncident
    ELSE MinDistanceLoop(coords, incident, k + 1,
            Min(minDistanceToIncident,
                calculateDistance(coords[k][1], coords[k][2], incident.lat, incident.lng)))

\* one iteration of the outer loop, on the accumulator
\* [cost, incidentsNearRoute, penalised]; penalised logs every "cost += weight"
IncidentStep(acc, coords, incident) ==
    LET minDistanceToIncident == MinDistanceLoop(coords, incident, 1, Infinity)
    IN IF WithinDetectionRadius(minDistanceToIncident)
          /\ ~AlreadyCounted(acc.incidentsNearRoute, incident)
       THEN LET weight == IncidentWeight(incident, minDistanceToIncident)
            IN [cost |-> AddPenalty(acc.cost, weight),
                incidentsNearRoute |-> MarkCounted(acc.incidentsNearRoute, incident),
                penalised |-> Append(acc.penalised, [id |-> incident.id, weight |-> weight])]
       ELSE acc

RECURSIVE IncidentLoop(_, _, _, _)
IncidentLoop(acc, coords, incs, i) ==
    IF i > Len(incs) THEN acc
    ELSE IncidentLoop(IncidentStep(acc, coords, incs[i]), coords, incs, i + 1)

calculateRouteCost(coords, dist, dur, incs) ==
    LET final == IncidentLoop([cost |-> BaseCost(dist, dur),
                               incidentsNearRoute |-> {},
                               penalised |-> <<>>], coords, incs, 1)
    IN [cost |-> final.cost, penalised |-> final.penalised]

-----------------------------------------------------------------------------
(* Routing providers: getValhallaRoute, decodePolyline6, getOSRMRoute *)

\* a Promise<RouteResult | null> value: <<>> is null, <<r>> is the route r
Null == <<>>

\* a rejected promise, with the error it rejects with
Thrown(error) == <<[error |-> error]>>

IsThrown(x) == x # Null /\ "error" \in DOMAIN x[1]

TransportMode == {"driving", "walking", "cycling", "transit"}

costingMap ==
    [driving |-> "auto", walking |-> "pedestrian", cycling |-> "bicycle",
     transit |-> "multimodal"]

profileMap == [driving |-> "car", walking |-> "foot", cycling |-> "bike", transit |-> "car"]

\* the request getValhallaRoute posts
ValhallaRequest(start, end, mode) ==
    [provider |-> "valhalla", type |-> "request",
     locations |-> <<start, end>>, profile |-> costingMap[mode]]

\* the URL getOSRMRoute fetches: /route/v1/${profile}/${start};${end}
OSRMRequest(start, end, mode) ==
    [provider |-> "osrm", type |-> "request",
     locations |-> <<start, end>>, profile |-> profileMap[mode]]

\* result & 1 ? ~(result >> 1) : result >> 1
ZigZag(result) == IF result % 2 = 1 THEN -(result \div 2) - 1 ELSE result \div 2

\* decodePolyline6 on the values of the varint groups of the encoded string (two
\* per point); the decoded coordinates are kept in the unit of the local frame
\* (lat / 1e6 only changes the unit)
RECURSIVE decodePolyline6Loop(_, _, _, _, _)
decodePolyline6Loop(encoded, index, lat, lng, coordinates) ==
    IF index > Len(encoded) THEN coordinates
    ELSE LET newLat == lat + ZigZag(encoded[index])
             newLng == lng + ZigZag(encoded[index + 1])
         IN decodePolyline6Loop(encoded, index + 2, newLat, newLng,
                                Append(coordinates, <<newLat, newLng>>))

decodePolyline6(encoded) == decodePolyline6Loop(encoded, 1, 0, 0, <<>>)

\* instruction: maneuver.instruction || "Continue"; km to metres
ValhallaSteps(maneuvers) ==
    [k \in DOMAIN maneuvers |->
        [instruction |-> IF maneuvers[k].instruction = "" THEN <<"Continue">>
                         ELSE <<maneuvers[k].instruction>>,
         distance |-> maneuvers[k].length * 1000,
         duration |-> maneuvers[k].time]]

\* a parsed Valhalla body: hasTrip / hasLegs say whether data.trip and
\* data.trip.legs exist, wellFormed whether the first leg has shape, maneuvers
\* and summary (reading a missing one throws)
ValhallaLeg(shape, wellFormed) ==
    [shape |-> shape, wellFormed |-> wellFormed,
     maneuvers |-> <<[instruction |-> "", length |-> 1, time |-> 60],
                     [instruction |-> "Turn left onto Broadway.", length |-> 1, time |-> 60]>>,
     summary |-> [length |-> 2, time |-> 120]]

ValhallaBody(hasTrip, hasLegs, legs) == [hasTrip |-> hasTrip, hasLegs |-> hasLegs, legs |-> legs]

\* encoded shapes: <<0, 0>> then <<0, 300>>, the point <<0, 300>> alone, and no
\* point (the empty string)
Shapes == {<<0, 0, 0, 600>>, <<0, 600>>, <<>>}

ValhallaBodies ==
    {ValhallaBody(FALSE, FALSE, <<>>), ValhallaBody(TRUE, FALSE, <<>>),
     ValhallaBody(TRUE, TRUE, <<>>)}
    \cup {ValhallaBody(TRUE, TRUE, <<ValhallaLeg(sh, wf)>>) : sh \in Shapes, wf \in BOOLEAN}

ValhallaCatch_rethrow(error) == Thrown(error)

\* catch (error) { console.error("Valhalla routing error:", error); return null; }
ValhallaCatch(error) == Null

\* getValhallaRoute from the parsed body on: null for a body without trip,
\* legs or a first leg; reading a malformed leg throws into the catch block
ValhallaResult(data) ==
    IF ~data.hasTrip \/ ~data.hasLegs \/ Len(data.legs) = 0 THEN Null
    ELSE LET leg == data.legs[1]
         IN IF ~leg.wellFormed THEN ValhallaCatch("TypeError")
            ELSE <<[coordinates |-> decodePolyline6(leg.shape),
                    distance |-> leg.summary.length * 1000,
                    duration |-> leg.summary.time,
                    steps |-> ValhallaSteps(leg.maneuvers)]>>

\* modifier?.includes("left") / modifier?.includes("right") on OSRM's modifiers
LeftModifiers == {"left", "slight left", "sharp left"}
RightModifiers == {"right", "slight right", "sharp right"}

\* the instruction getOSRMRoute builds for a step, as the sequence of its
\* parts; "" stands for a field the step does not have
OSRMInstruction(step) ==
    IF ~step.hasManeuver THEN <<"Continue">>
    ELSE LET type == step.type
             modifier == step.modifier
             streetName == IF step.name = "" THEN "the road" ELSE step.name
         IN IF type = "depart"
            THEN <<"Head", IF modifier = "" THEN "straight" ELSE modifier, "on", streetName>>
            ELSE IF type = "arrive" THEN <<"Arrive at destination">>
            ELSE IF type \in {"turn", "new name"}
            THEN <<"Turn",
                   IF modifier \in LeftModifiers THEN "left"
                   ELSE IF modifier \in RightModifiers THEN "right" ELSE "straight",
                   "onto", streetName>>
            ELSE IF type \in {"merge", "on ramp"} THEN <<"Merge onto", streetName>>
            ELSE IF type = "off ramp" THEN <<"Take exit onto", streetName>>
            ELSE IF type \in {"roundabout", "rotary"} THEN <<"Take roundabout onto", streetName>>
            ELSE IF type = "continue" THEN <<"Continue on", streetName>>
            ELSE <<type, modifier, streetName>>

OSRMSteps(steps) ==
    [k \in DOMAIN steps |->
        [instruction |-> OSRMInstruction(steps[k]),
         distance |-> steps[k].distance,
         duration |-> steps[k].duration]]

OSRMStep(type, modifier, name) ==
    [hasManeuver |-> TRUE, type |-> type, modifier |-> modifier, name |-> name,
     distance |-> 1050, duration |-> 65]

\* a parsed OSRM body; geometry coordinates are [lng, lat] pairs; wellFormed
\* says whether the first route has geometry and legs (reading a missing one
\* throws)
OSRMRouteJson(geometry, wellFormed) ==
    [geometry |-> geometry, wellFormed |-> wellFormed,
     distance |-> 2100, duration |-> 130,
     steps |-> <<OSRMStep("depart", "", ""), OSRMStep("turn", "slight left", "Broadway")>>]

OSRMBody(code, hasRoutes, routes) == [code |-> code, hasRoutes |-> hasRoutes, routes |-> routes]

\* [lng, lat] pairs of <<0, 0>> then <<0, 300>>, and an empty geometry
Geometries == {<<<<0, 0>>, <<300, 0>>>>, <<>>}

OSRMBodies ==
    {OSRMBody("NoRoute", FALSE, <<>>), OSRMBody("Ok", FALSE, <<>>), OSRMBody("Ok", TRUE, <<>>)}
    \cup {OSRMBody("Ok", TRUE, <<OSRMRouteJson(g, wf)>>) : g \in Geometries, wf \in BOOLEAN}

\* catch (error) { console.error("OSRM routing error:", error); return null; }
OSRMCatch(error) == Null

\* getOSRMRoute from the parsed body on; coordinates become [lat, lng];
\* reading a malformed route throws into the catch block
OSRMResult(data) ==
    IF data.code # "Ok" \/ ~data.hasRoutes \/ Len(data.routes) = 0 THEN Null
    ELSE LET route == data.routes[1]
         IN IF ~route.wellFormed THEN OSRMCatch("TypeError")
            ELSE <<[coordinates |->
                        [k \in DOMAIN route.geometry |->
                            <<route.geometry[k][2], route.geometry[k][1]>>],
                    distance |-> route.distance,
                    duration |-> route.duration,
                    steps |-> OSRMSteps(route.steps)]>>

-----------------------------------------------------------------------------
(* getRoute *)

Settled(provider, type) == [provider |-> provider, type |-> type]

\* how an awaited provider call settled
Outcome(route) ==
    IF IsThrown(route) THEN "threw" ELSE IF route = Null THEN "failure" ELSE "success"

\* endpoints of a routing request
Endpoints == {<<0, 0>>, <<0, 300>>}

\* incident lists a caller passes to getRoute
IncidentLists == {<<>>, <<Incident("a", <<150, 0>>, "high")>>}

\* what the network delivers to an awaited fetch or response.json()
FetchThrows(provider) == [provider |-> provider, kind |-> "fetch_throws"]
FetchResolves(provider, ok) == [provider |-> provider, kind |-> "fetch", ok |-> ok]
JsonThrows(provider) == [provider |-> provider, kind |-> "json_throws"]
JsonResolves(provider, data) == [provider |-> provider, kind |-> "json", data |-> data]

NoCall == <<>>

\* while a call repeats a completed one, the network delivers what it
\* delivered to that one
Delivers(response) ==
    IF prevCall = NoCall THEN TRUE
    ELSE /\ Len(grResponses) < Len(prevCall[1].responses)
         /\ response = prevCall[1].responses[Len(grResponses) + 1]

\* the useState initial values
HomeInitial ==
    [isMounted |-> FALSE,
     currentView |-> "dashboard",
     showIncidents |-> TRUE,
     allIncidents |-> <<>>,
     displayIncidents |-> <<>>,
     routeData |-> Null,
     alternativeRoute |-> Null,
     isCalculatingRoute |-> FALSE,
     currentTransportMode |-> "driving",
     isNavigating |-> FALSE,
     currentLocation |-> Null,
     watchId |-> Null,
     locationError |-> Null,
     showVoiceReportDialog |-> FALSE,
     reportedIncidents |-> <<>>]

PageIdle ==
    /\ home = HomeInitial
    /\ calcs = <<>>
    /\ geo = [watches |-> {}, fix |-> "none"]

WaypointsIdle ==
    /\ wpArgs = [start |-> <<0, 0>>, end |-> <<0, 0>>, incidentsToAvoid |-> <<>>]
    /\ wpPc = "ready"
    /\ allWaypoints = <<>>

CheckIdle ==
    /\ checkArgs = [routeCoordinates |-> <<>>, incidents |-> <<>>]
    /\ checkPc = "ready"
    /\ nearbyIncidents = <<>>

NextWaypointIdle ==
    /\ nwArgs = [currentLocation |-> <<0, 0>>, routeCoordinates |-> <<>>, lookAheadMeters |-> 100]
    /\ nwPc = "ready"
    /\ nwResult = <<>>

\* the result before the first incident
NoProximity ==
    [severity |-> "safe", nearestIncident |-> Null, distance |-> Infinity,
     incidentsInRange |-> <<>>]

ProximityIdle ==
    /\ proxArgs = [currentLocation |-> <<0, 0>>, incidents |-> <<>>]
    /\ proxPc = "ready"
    /\ proxResult = NoProximity

ProcessLocals ==
    [transcriptText |-> <<>>, extractedData |-> Null, geocodeData |-> Null,
     coordinates |-> Null]

ProcessIdle ==
    /\ prPc = "idle"
    /\ prEnv = [GEMINI_API_KEY |-> TRUE]
    /\ prLocals = ProcessLocals
    /\ prRequests = <<>>
    /\ prResponse = Null

DialogIdle ==
    /\ dlg = [open |-> FALSE, status |-> "idle", conversationId |-> Null]
    /\ sdk = [status |-> "disconnected", fresh |-> TRUE, sessions |-> 0,
              captured |-> [status |-> "idle", conversationId |-> Null,
                            sdkStatus |-> "disconnected"]]
    /\ starts = <<>>
    /\ calls = <<>>
    /\ stops = 0
    /\ dlgLog = [opens |-> 0, posted |-> <<>>, reported |-> <<>>, unclosed |-> 0]

CostIdle ==
    /\ routeCoordinates = <<>>
    /\ distance = 0
    /\ duration = 0
    /\ incidents = <<>>
    /\ costResult = NoResult

RouteIdle ==
    /\ grPc = "idle"
    /\ grArgs = [start |-> <<0, 0>>, end |-> <<0, 0>>, mode |-> "driving", incidents |-> <<>>]
    /\ grEvents = <<>>
    /\ directRoute = Null
    /\ grResult = Null
    /\ grResponses = <<>>
    /\ prevCall = NoCall

FallbackNeeded_never(route) == FALSE

FallbackNeeded_always(route) == TRUE

\* if (!directRoute)
FallbackNeeded(route) == route = Null

ReturnedRoute_avoidIncidents(route, incs) == IF incs = <<>> THEN route ELSE Null

\* return directRoute: fast mode, the incidents argument is not read
ReturnedRoute(route, incs) == route

FallbackRequest_retryPrimary(start, end, mode) == ValhallaRequest(start, end, mode)

\* getOSRMRoute(start, end, mode) posts its request
FallbackRequest(start, end, mode) == OSRMRequest(start, end, mode)

FallbackResult_straightLine(route) ==
    IF route = Null
    THEN <<[coordinates |-> <<grArgs.start, grArgs.end>>, distance |-> 300,
            duration |-> 60, steps |-> <<>>]>>
    ELSE route

\* return getOSRMRoute(start, end, mode)
FallbackResult(route) == route

\* getRoute is called: it awaits getValhallaRoute, which posts its request
StartCall(start, end, mode, incs) ==
    /\ grArgs' = [start |-> start, end |-> end, mode |-> mode, incidents |-> incs]
    /\ grEvents' = <<ValhallaRequest(start, end, mode)>>
    /\ directRoute' = Null
    /\ grResult' = Null
    /\ grResponses' = <<>>
    /\ grPc' = "valhalla_fetch"
    /\ UNCHANGED exceptRoute

GetRouteCall(start, end, mode, incs) ==
    /\ grPc \in {"idle", "done"}
    /\ prevCall' = NoCall
    /\ StartCall(start, end, mode, incs)

\* getRoute is called again with the start, end and mode of the call that
\* just completed and any incident list; the providers answer as they did
GetRouteAgain(incs) ==
    /\ grPc = "done"
    /\ prevCall = NoCall
    /\ prevCall' = <<[args |-> grArgs, responses |-> grResponses,
                      events |-> grEvents, result |-> grResult]>>
    /\ StartCall(grArgs.start, grArgs.end, grArgs.mode, incs)

\* getValhallaRoute settled with route: the rest of getRoute up to its next
\* await, its return, or the rejection of its promise when the await throws
AfterValhalla(route, response) ==
    /\ directRoute' = route
    /\ grResponses' = Append(grResponses, response)
    /\ IF IsThrown(route)
       THEN /\ grEvents' = Append(grEvents, Settled("valhalla", Outcome(route)))
            /\ grPc' = "rejected"
            /\ grResult' = route
       ELSE IF FallbackNeeded(route)
       THEN /\ grEvents' = grEvents \o
                  <<Settled("valhalla", Outcome(route)),
                    FallbackRequest(grArgs.start, grArgs.end, grArgs.mode)>>
            /\ grPc' = "osrm_fetch"
            /\ grResult' = grResult
       ELSE /\ grEvents' = Append(grEvents, Settled("valhalla", Outcome(route)))
            /\ grPc' = "done"
            /\ grResult' = ReturnedRoute(route, grArgs.incidents)
    /\ UNCHANGED <<grArgs, prevCall>>
    /\ UNCHANGED exceptRoute

\* the call stays suspended in a provider function
StillAwaiting(pc, response) ==
    /\ grPc' = pc
    /\ grResponses' = Append(grResponses, response)
    /\ UNCHANGED <<grArgs, grEvents, directRoute, grResult, prevCall>>
    /\ UNCHANGED exceptRoute

\* fetch rejects (network error): the catch block returns null
ValhallaFetchThrows ==
    /\ grPc = "valhalla_fetch"
    /\ Delivers(FetchThrows("valhalla"))
    /\ AfterValhalla(ValhallaCatch("fetch failed"), FetchThrows("valhalla"))

\* fetch resolves; a response that is not ok returns null
ValhallaFetchResolves(ok) ==
    /\ grPc = "valhalla_fetch"
    /\ Delivers(FetchResolves("valhalla", ok))
    /\ IF ok
       THEN StillAwaiting("valhalla_json", FetchResolves("valhalla", ok))
       ELSE AfterValhalla(Null, FetchResolves("valhalla", ok))

\* response.json() rejects: the catch block returns null
ValhallaJsonThrows ==
    /\ grPc = "valhalla_json"
    /\ Delivers(JsonThrows("valhalla"))
    /\ AfterValhalla(ValhallaCatch("SyntaxError"), JsonThrows("valhalla"))

\* response.json() resolves with the parsed body
ValhallaJsonResolves(data) ==
    /\ grPc = "valhalla_json"
    /\ Delivers(JsonResolves("valhalla", data))
    /\ AfterValhalla(ValhallaResult(data), JsonResolves("valhalla", data))

\* getOSRMRoute settled with route, which getRoute returns
AfterOSRM(route, response) ==
    /\ grEvents' = Append(grEvents, Settled("osrm", Outcome(route)))
    /\ grResponses' = Append(grResponses, response)
    /\ IF IsThrown(route)
       THEN /\ grPc' = "rejected"
            /\ grResult' = route
       ELSE /\ grPc' = "done"
            /\ grResult' = FallbackResult(route)
    /\ UNCHANGED <<grArgs, directRoute, prevCall>>
    /\ UNCHANGED exceptRoute

OSRMFetchThrows ==
    /\ grPc = "osrm_fetch"
    /\ Delivers(FetchThrows("osrm"))
    /\ AfterOSRM(OSRMCatch("fetch failed"), FetchThrows("osrm"))

OSRMFetchResolves(ok) ==
    /\ grPc = "osrm_fetch"
    /\ Delivers(FetchResolves("osrm", ok))
    /\ IF ok
       THEN StillAwaiting("osrm_json", FetchResolves("osrm", ok))
       ELSE AfterOSRM(Null, FetchResolves("osrm", ok))

OSRMJsonThrows ==
    /\ grPc = "osrm_json"
    /\ Delivers(JsonThrows("osrm"))
    /\ AfterOSRM(OSRMCatch("SyntaxError"), JsonThrows("osrm"))

OSRMJsonResolves(data) ==
    /\ grPc = "osrm_json"
    /\ Delivers(JsonResolves("osrm", data))
    /\ AfterOSRM(OSRMResult(data), JsonResolves("osrm", data))

InitRoute ==
    /\ CostIdle
    /\ RouteIdle
    /\ PageIdle
    /\ DialogIdle
    /\ ProcessIdle
    /\ ProximityIdle
    /\ NextWaypointIdle
    /\ WaypointsIdle
    /\ CheckIdle

NextRoute ==
    \/ \E start \in Endpoints, end \in Endpoints, mode \in TransportMode, incs \in IncidentLists :
          GetRouteCall(start, end, mode, incs)
    \/ \E incs \in IncidentLists : GetRouteAgain(incs)
    \/ ValhallaFetchThrows
    \/ \E ok \in BOOLEAN : ValhallaFetchResolves(ok)
    \/ ValhallaJsonThrows
    \/ \E data \in ValhallaBodies : ValhallaJsonResolves(data)
    \/ OSRMFetchThrows
    \/ \E ok \in BOOLEAN : OSRMFetchResolves(ok)
    \/ OSRMJsonThrows
    \/ \E data \in OSRMBodies : OSRMJsonResolves(data)

SpecRoute == InitRoute /\ [][NextRoute]_vars

-----------------------------------------------------------------------------
(* The cost model applied to every input of the universe *)

InsertAt(s, pos, x) == SubSeq(s, 1, pos - 1) \o <<x>> \o SubSeq(s, pos, Len(s))

RemoveAt(s, pos) == SubSeq(s, 1, pos - 1) \o SubSeq(s, pos + 1, Len(s))

InitCost ==
    /\ routeCoordinates \in Routes
    /\ \E b \in BaseInputs : distance = b[1] /\ duration = b[2]
    /\ incidents = <<>>
    /\ costResult = NoResult
    /\ RouteIdle
    /\ PageIdle
    /\ DialogIdle
    /\ ProcessIdle
    /\ ProximityIdle
    /\ NextWaypointIdle
    /\ WaypointsIdle
    /\ CheckIdle

\* a caller evaluates the cost of the route against the current incident list
EvaluateCost ==
    /\ costResult = NoResult
    /\ costResult' = calculateRouteCost(routeCoordinates, distance, duration, incidents)
    /\ UNCHANGED <<routeCoordinates, distance, duration, incidents>>
    /\ UNCHANGED exceptCost

\* a caller adds an incident to the list and evaluates the cost again
AddIncident(inc, pos) ==
    /\ costResult # NoResult
    /\ Len(incidents) < MaxIncidents
    /\ pos \in 1..(Len(incidents) + 1)
    /\ incidents' = InsertAt(incidents, pos, inc)
    /\ costResult' = calculateRouteCost(routeCoordinates, distance, duration, incidents')
    /\ UNCHANGED <<routeCoordinates, distance, duration>>
    /\ UNCHANGED exceptCost

NextCost ==
    \/ EvaluateCost
    \/ \E inc \in IncidentUniverse, pos \in 1..MaxIncidents : AddIncident(inc, pos)

SpecCost == InitCost /\ [][NextCost]_vars

-----------------------------------------------------------------------------
(* Home, the page component of src/src/app/page.tsx.  A handler runs to its  *)
(* end or to its next await in one step, and the state updates it queued     *)
(* are committed before the next event is handled.  selectedIncident, which  *)
(* only marks the incident selected on the map, is left out.                 *)

\* const targetPerCategory = 50
targetPerCategory == 50

\* generateAllIncidents(), a short list in place of the 502 generated entries
GeneratedIncidents ==
    <<Incident(<<"incident", 0>>, <<150, 0>>, "high"),
      Incident(<<"incident", 1>>, <<600, 0>>, "medium")>>

testIncident == Incident(<<"test-location-incident">>, <<0, 0>>, "high")

CeilDiv(a, b) == (a + b - 1) \div b

\* list.filter((_, i) => i % n === 0), from the element at position i on
RECURSIVE EveryNth(_, _, _)
EveryNth(list, n, i) ==
    IF i > Len(list) THEN <<>>
    ELSE (IF (i - 1) % n = 0 THEN <<list[i]>> ELSE <<>>) \o EveryNth(list, n, i + 1)

WithCredibility(list, cred) == SelectSeq(list, LAMBDA x : x.credibility = cred)

\* one colour of the sample: every ceil(length / targetPerCategory)-th incident
SampleOf(list) ==
    IF list = <<>> THEN <<>>
    ELSE EveryNth(list, CeilDiv(Len(list), targetPerCategory), 1)

sampled(convertedIncidents) ==
    SampleOf(WithCredibility(convertedIncidents, "high"))
        \o SampleOf(WithCredibility(convertedIncidents, "medium"))
        \o SampleOf(WithCredibility(convertedIncidents, "low"))

\* severities a voice report can carry
Severities == {"high", "medium", "critical"}

\* credibility: incident.severity === "high" ? "high" : ... === "medium" ? "medium" : "low"
ReportCredibility(severity) ==
    IF severity = "high" THEN "high" ELSE IF severity = "medium" THEN "medium" ELSE "low"

\* the incident handleIncidentReported builds; now is Date.now()
newIncident(report, now) ==
    Incident(<<"user-report", now>>, <<report.lat, report.lng>>,
             ReportCredibility(report.severity))

Reports == {[lat |-> 150, lng |-> 0, severity |-> sev] : sev \in Severities}

\* Date.now() of the latest report, 0 before the first
LastReportTime ==
    IF home.reportedIncidents = <<>> THEN 0
    ELSE home.reportedIncidents[Len(home.reportedIncidents)].id[2]

\* Date.now(): the millisecond of the latest report or a later one
Now == {t \in {LastReportTime, LastReportTime + 1} : t >= 1}

PageModes == {"driving", "walking"}

Addresses == {"Times Square", "nowhere"}

\* what geocodeAddress resolves with
GeocodeResults == {Null, <<<<0, 0>>>>}

\* what getRoute resolves with: the route of the mode it was asked for
PageRoute(mode) ==
    [coordinates |-> <<<<0, 0>>, <<0, 300>>>>, distance |-> 300,
     duration |-> IF mode = "walking" THEN 240 ELSE 60, steps |-> <<>>]

GetRouteResults(mode) == {Null, <<PageRoute(mode)>>}

Position == <<0, 0>>

\* handleLocationError: the message per GeolocationPositionError code
LocationErrorMessage ==
    [PERMISSION_DENIED |-> "Location access denied",
     POSITION_UNAVAILABLE |-> "Location unavailable",
     TIMEOUT |-> "GPS signal timeout"]

\* hydration: setIsMounted(true), then the effect on [isMounted] loads the
\* incidents; both effects have run before the first event is handled
Mount ==
    /\ ~home.isMounted
    /\ LET convertedIncidents == GeneratedIncidents
       IN home' = [home EXCEPT
              !.isMounted = TRUE,
              !.allIncidents = convertedIncidents,
              !.displayIncidents = sampled(convertedIncidents) \o <<testIncident>>]
    /\ UNCHANGED <<calcs, geo>>
    /\ UNCHANGED exceptPage

\* TopNav: onViewChange={setCurrentView}
onViewChange(view) ==
    /\ home.isMounted
    /\ home' = [home EXCEPT !.currentView = view]
    /\ UNCHANGED <<calcs, geo>>
    /\ UNCHANGED exceptPage

handleToggleIncidents ==
    /\ home.isMounted
    /\ home.currentView = "dashboard"
    /\ home' = [home EXCEPT !.showIncidents = ~@]
    /\ UNCHANGED <<calcs, geo>>
    /\ UNCHANGED exceptPage

handleReportIncident ==
    /\ home.isMounted
    /\ home' = [home EXCEPT !.showVoiceReportDialog = TRUE]
    /\ UNCHANGED <<calcs, geo>>
    /\ UNCHANGED exceptPage

\* VoiceReportDialog: onClose={() => setShowVoiceReportDialog(false)}
onClose ==
    /\ home.isMounted
    /\ home.showVoiceReportDialog
    /\ home' = [home EXCEPT !.showVoiceReportDialog = FALSE]
    /\ UNCHANGED <<calcs, geo>>
    /\ UNCHANGED exceptPage

AddReported_notDisplayed(list, incident) == list

\* setDisplayIncidents(prev => [...prev, newIncident])
AddReported(list, incident) == Append(list, incident)

handleIncidentReported(incident, now) ==
    /\ home.isMounted
    /\ Len(home.reportedIncidents) < MaxReports
    /\ home' = [home EXCEPT
           !.reportedIncidents = Append(@, newIncident(incident, now)),
           !.displayIncidents = AddReported(@, newIncident(incident, now)),
           !.showVoiceReportDialog = FALSE]
    /\ UNCHANGED <<calcs, geo>>
    /\ UNCHANGED exceptPage

\* handleCalculateRoute up to its first await; the invocation keeps the
\* allIncidents of the render that created it (reportedBefore records the
\* reports made before the invocation)
handleCalculateRoute(start, end, mode) ==
    /\ home.isMounted
    /\ home' = [home EXCEPT
           !.isCalculatingRoute = TRUE,
           !.alternativeRoute = IF home.routeData # Null THEN home.routeData ELSE @,
           !.routeData = Null,
           !.currentTransportMode = mode]
    /\ calcs' = Append(calcs,
           [pc |-> "geocode_start", mode |-> mode, allIncidents |-> home.allIncidents,
            startCoords |-> Null, endCoords |-> Null,
            reportedBefore |-> home.reportedIncidents])
    /\ UNCHANGED geo
    /\ UNCHANGED exceptPage

\* await geocodeAddress(start) resolves; geocodeAddress(end) is awaited
StartGeocoded(i, coords) ==
    /\ i \in DOMAIN calcs
    /\ calcs[i].pc = "geocode_start"
    /\ calcs' = [calcs EXCEPT ![i].pc = "geocode_end", ![i].startCoords = coords]
    /\ UNCHANGED <<home, geo>>
    /\ UNCHANGED exceptPage

\* await geocodeAddress(end) resolves: without both coordinates the handler
\* returns, otherwise it awaits getRoute(startCoords, endCoords, mode, allIncidents)
EndGeocoded(i, coords) ==
    /\ i \in DOMAIN calcs
    /\ calcs[i].pc = "geocode_end"
    /\ IF calcs[i].startCoords = Null \/ coords = Null
       THEN /\ home' = [home EXCEPT !.isCalculatingRoute = FALSE]
            /\ calcs' = RemoveAt(calcs, i)
       ELSE /\ calcs' = [calcs EXCEPT ![i].pc = "getRoute", ![i].endCoords = coords]
            /\ home' = home
    /\ UNCHANGED geo
    /\ UNCHANGED exceptPage

\* await getRoute(...) resolves: setRouteData, then finally setIsCalculatingRoute(false)
RouteSettled(i, route) ==
    /\ i \in DOMAIN calcs
    /\ calcs[i].pc = "getRoute"
    /\ home' = [home EXCEPT
           !.routeData =
               IF route # Null
               THEN <<[coordinates |-> route[1].coordinates, distance |-> route[1].distance,
                       duration |-> route[1].duration, steps |-> route[1].steps,
                       start |-> calcs[i].startCoords[1], end |-> calcs[i].endCoords[1]]>>
               ELSE Null,
           !.isCalculatingRoute = FALSE]
    /\ calcs' = RemoveAt(calcs, i)
    /\ UNCHANGED geo
    /\ UNCHANGED exceptPage

\* the id watchPosition returns: one no active watch has
NewWatchId == CHOOSE id \in 1..(Cardinality(geo.watches) + 1) : id \notin geo.watches

\* the cleanup of the effect on [watchId], run when watchId changes
WatchIdCleanup(watches, old, new) ==
    IF old # new /\ old # Null THEN watches \ {old[1]} ELSE watches

\* RouteInfoCard is rendered on the dashboard while there is a route
RouteInfoCardRendered ==
    /\ home.isMounted
    /\ home.currentView = "dashboard"
    /\ home.routeData # Null

handleStartNavigation(supported, secure) ==
    /\ RouteInfoCardRendered
    /\ IF home.routeData = Null
       THEN UNCHANGED <<home, geo>>
       ELSE IF ~supported
       THEN /\ home' = [home EXCEPT !.locationError = <<"Geolocation not supported">>]
            /\ UNCHANGED geo
       ELSE IF ~secure
       THEN /\ home' = [home EXCEPT !.locationError = <<"Requires HTTPS">>]
            /\ UNCHANGED geo
       ELSE /\ home' = [home EXCEPT
                   !.isNavigating = TRUE,
                   !.locationError = Null,
                   !.currentView = "ar",
                   !.watchId = <<NewWatchId>>]
            /\ geo' = [watches |-> WatchIdCleanup(geo.watches \cup {NewWatchId},
                                                  home.watchId, <<NewWatchId>>),
                       fix |-> "high"]
    /\ UNCHANGED calcs
    /\ UNCHANGED exceptPage

\* a getCurrentPosition request succeeds
PositionAcquired ==
    /\ geo.fix # "none"
    /\ home' = [home EXCEPT !.currentLocation = <<Position>>]
    /\ geo' = [geo EXCEPT !.fix = "none"]
    /\ UNCHANGED calcs
    /\ UNCHANGED exceptPage

\* a getCurrentPosition request fails: the high-accuracy request is followed
\* by the low-accuracy one, whose failure goes to handleLocationError
PositionFailed(code) ==
    /\ geo.fix # "none"
    /\ IF geo.fix = "high"
       THEN /\ geo' = [geo EXCEPT !.fix = "low"]
            /\ home' = home
       ELSE /\ geo' = [geo EXCEPT !.fix = "none"]
            /\ home' = [home EXCEPT !.locationError = <<LocationErrorMessage[code]>>]
    /\ UNCHANGED calcs
    /\ UNCHANGED exceptPage

\* the success callback of an active watchPosition
WatchPosition(id) ==
    /\ id \in geo.watches
    /\ home' = [home EXCEPT !.currentLocation = <<Position>>, !.locationError = Null]
    /\ UNCHANGED <<calcs, geo>>
    /\ UNCHANGED exceptPage

handleStopNavigation ==
    /\ RouteInfoCardRendered
    /\ home' = [home EXCEPT
           !.watchId = Null,
           !.isNavigating = FALSE,
           !.currentLocation = Null,
           !.locationError = Null,
           !.currentView = "dashboard"]
    /\ geo' = [geo EXCEPT !.watches =
                   IF home.watchId # Null THEN @ \ {home.watchId[1]} ELSE @]
    /\ UNCHANGED calcs
    /\ UNCHANGED exceptPage

InitPage ==
    /\ CostIdle
    /\ RouteIdle
    /\ PageIdle
    /\ DialogIdle
    /\ ProcessIdle
    /\ ProximityIdle
    /\ NextWaypointIdle
    /\ WaypointsIdle
    /\ CheckIdle

NextPage ==
    \/ Mount
    \/ \E view \in {"dashboard", "ar"} : onViewChange(view)
    \/ handleToggleIncidents
    \/ handleReportIncident
    \/ onClose
    \/ \E incident \in Reports, now \in Now : handleIncidentReported(incident, now)
    \/ \E start \in Addresses, end \in Addresses, mode \in PageModes :
          Len(calcs) < MaxCalcs /\ handleCalculateRoute(start, end, mode)
    \/ \E i \in DOMAIN calcs, coords \in GeocodeResults : StartGeocoded(i, coords)
    \/ \E i \in DOMAIN calcs, coords \in GeocodeResults : EndGeocoded(i, coords)
    \/ \E i \in DOMAIN calcs :
          \E route \in GetRouteResults(calcs[i].mode) : RouteSettled(i, route)
    \/ \E supported \in BOOLEAN, secure \in BOOLEAN : handleStartNavigation(supported, secure)
    \/ PositionAcquired
    \/ \E code \in DOMAIN LocationErrorMessage : PositionFailed(code)
    \/ \E id \in geo.watches : WatchPosition(id)
    \/ handleStopNavigation

SpecPage == InitPage /\ [][NextPage]_vars

\* overlapping route calculations: the page after mount, with up to
\* MaxOverlap handleCalculateRoute invocations in flight (TopNav calls
\* onCalculateRoute again whenever the transport mode changes)
NextRecalc ==
    \/ Mount
    \/ \E start \in Addresses, end \in Addresses, mode \in PageModes :
          Len(calcs) < MaxOverlap /\ handleCalculateRoute(start, end, mode)
    \/ \E i \in DOMAIN calcs, coords \in GeocodeResults : StartGeocoded(i, coords)
    \/ \E i \in DOMAIN calcs, coords \in GeocodeResults : EndGeocoded(i, coords)
    \/ \E i \in DOMAIN calcs :
          \E route \in GetRouteResults(calcs[i].mode) : RouteSettled(i, route)

SpecRecalc == InitPage /\ [][NextRecalc]_vars

-----------------------------------------------------------------------------
(* generateAvoidanceWaypoints.  The function works on degrees; here a        *)
(* coordinate is an integer number of micro-degrees, so the avoidance        *)
(* distances 0.005, 0.010 and 0.015 are 5000, 10000 and 15000.  The inputs   *)
(* are chosen so that every start-to-end length is a whole number that       *)
(* divides the scaled perpendicular, and every start-to-incident offset is   *)
(* even: the arithmetic of the function is then exact.                       *)

MaxAvoid == 2

\* const distances = [0.005, 0.010, 0.015]
distances == <<5000, 10000, 15000>>

WaypointEndpoints == {<<0, 0>>, <<0, 300>>, <<400, 300>>}

WaypointIncidents ==
    {Incident("a", <<200, 100>>, "high"), Incident("b", <<0, 200>>, "high"),
     Incident("c", <<200, 100>>, "medium")}

RoutePoint(lat, lng) == [lat |-> lat, lng |-> lng]

\* (perp / length) * avoidDistance
NormPerp(perp, length, avoidDistance) == (perp * avoidDistance) \div length

\* startToIncident * 0.5
Half(x) == IF x >= 0 THEN x \div 2 ELSE -((-x) \div 2)

StrategiesFor_singlesOnly(start, incident, n1, n2) ==
    << <<RoutePoint(incident.lat + n1[1], incident.lng + n1[2])>>,
       <<RoutePoint(incident.lat + n2[1], incident.lng + n2[2])>> >>

\* the four lists pushed for one incident and one avoidance distance; n1 and
\* n2 are <<normPerpLat1, normPerpLng1>> and <<normPerpLat2, normPerpLng2>>
StrategiesFor(start, incident, n1, n2) ==
    LET startToIncidentLat == incident.lat - start[1]
        startToIncidentLng == incident.lng - start[2]
    IN << <<RoutePoint(incident.lat + n1[1], incident.lng + n1[2])>>,
          <<RoutePoint(incident.lat + n2[1], incident.lng + n2[2])>>,
          <<RoutePoint(start[1] + Half(startToIncidentLat) + n1[1],
                       start[2] + Half(startToIncidentLng) + n1[2]),
            RoutePoint(incident.lat + n1[1], incident.lng + n1[2])>>,
          <<RoutePoint(start[1] + Half(startToIncidentLat) + n2[1],
                       start[2] + Half(startToIncidentLng) + n2[2]),
            RoutePoint(incident.lat + n2[1], incident.lng + n2[2])>> >>

\* for (const avoidDistance of distances), from distances[d] on
RECURSIVE DistanceLoop(_, _, _, _, _)
DistanceLoop(start, end, incident, length, d) ==
    IF d > Len(distances) THEN <<>>
    ELSE LET startToEndLat == end[1] - start[1]
             startToEndLng == end[2] - start[2]
             perpLat1 == -startToEndLng
             perpLng1 == startToEndLat
             perpLat2 == startToEndLng
             perpLng2 == -startToEndLat
             n1 == <<NormPerp(perpLat1, length, distances[d]),
                     NormPerp(perpLng1, length, distances[d])>>
             n2 == <<NormPerp(perpLat2, length, distances[d]),
                     NormPerp(perpLng2, length, distances[d])>>
         IN StrategiesFor(start, incident, n1, n2)
                \o DistanceLoop(start, end, incident, length, d + 1)

\* for (const incident of incidentsToAvoid), from incidentsToAvoid[i] on
RECURSIVE AvoidLoop(_, _, _, _)
AvoidLoop(start, end, incidentsToAvoid, i) ==
    IF i > Len(incidentsToAvoid) THEN <<>>
    ELSE LET startToEndLat == end[1] - start[1]
             startToEndLng == end[2] - start[2]
             length == CeilSqrt(startToEndLat * startToEndLat + startToEndLng * startToEndLng)
         IN (IF length > 0
             THEN DistanceLoop(start, end, incidentsToAvoid[i], length, 1)
             ELSE <<>>)
                \o AvoidLoop(start, end, incidentsToAvoid, i + 1)

generateAvoidanceWaypoints(start, end, incidentsToAvoid) ==
    IF Len(incidentsToAvoid) = 0 THEN <<>>
    ELSE AvoidLoop(start, end, incidentsToAvoid, 1)

InitWaypoints ==
    /\ CostIdle
    /\ RouteIdle
    /\ PageIdle
    /\ DialogIdle
    /\ ProcessIdle
    /\ ProximityIdle
    /\ NextWaypointIdle
    /\ CheckIdle
    /\ wpArgs \in [start : WaypointEndpoints, end : WaypointEndpoints,
                   incidentsToAvoid : SeqsUpTo(WaypointIncidents, MaxAvoid)]
    /\ wpPc = "ready"
    /\ allWaypoints = <<>>

GenerateWaypoints ==
    /\ wpPc = "ready"
    /\ allWaypoints' = generateAvoidanceWaypoints(wpArgs.start, wpArgs.end,
                                                  wpArgs.incidentsToAvoid)
    /\ wpPc' = "returned"
    /\ UNCHANGED wpArgs
    /\ UNCHANGED exceptWaypoints

NextWaypoints == GenerateWaypoints

SpecWaypoints == InitWaypoints /\ [][NextWaypoints]_vars

-----------------------------------------------------------------------------
(* checkRouteForIncidents, called as the route selector would call it: with  *)
(* the default thresholdMeters                                               *)

\* thresholdMeters: number = 400
thresholdMetersDefault == 400

\* for (const [lat, lng] of routeCoordinates), from routeCoordinates[k] on: is
\* some vertex within the threshold of the incident
RECURSIVE NearSomeVertex(_, _, _, _)
NearSomeVertex(coords, incident, thresholdMeters, k) ==
    IF k > Len(coords) THEN FALSE
    ELSE IF calculateDistance(coords[k][1], coords[k][2], incident.lat, incident.lng)
                <= thresholdMeters
         THEN TRUE
         ELSE NearSomeVertex(coords, incident, thresholdMeters, k + 1)

\* for (const incident of incidents), from incidents[i] on
RECURSIVE CheckLoop(_, _, _, _)
CheckLoop(coords, incs, thresholdMeters, i) ==
    IF i > Len(incs) THEN <<>>
    ELSE (IF NearSomeVertex(coords, incs[i], thresholdMeters, 1) THEN <<incs[i]>> ELSE <<>>)
             \o CheckLoop(coords, incs, thresholdMeters, i + 1)

checkRouteForIncidents(coords, incs, thresholdMeters) ==
    CheckLoop(coords, incs, thresholdMeters, 1)

InitCheck ==
    /\ CostIdle
    /\ RouteIdle
    /\ PageIdle
    /\ DialogIdle
    /\ ProcessIdle
    /\ ProximityIdle
    /\ NextWaypointIdle
    /\ WaypointsIdle
    /\ checkArgs \in [routeCoordinates : Routes,
                      incidents : SeqsUpTo(IncidentUniverse, MaxIncidents)]
    /\ checkPc = "ready"
    /\ nearbyIncidents = <<>>

CheckRoute ==
    /\ checkPc = "ready"
    /\ nearbyIncidents' = checkRouteForIncidents(checkArgs.routeCoordinates,
                              checkArgs.incidents, thresholdMetersDefault)
    /\ checkPc' = "returned"
    /\ UNCHANGED checkArgs
    /\ UNCHANGED exceptCheck

NextCheck == CheckRoute

SpecCheck == InitCheck /\ [][NextCheck]_vars

-----------------------------------------------------------------------------
(* findNextWaypoint.  The routes and locations of this component lie on one  *)
(* line, so every distance is a whole number of metres and the strict        *)
(* comparisons of the function are exact.                                    *)

\* the vertices of the line, in order
LineRoute == [k \in 1..8 |-> <<0, 100 * (k - 1)>>]

Reverse(s) == [k \in 1..Len(s) |-> s[Len(s) + 1 - k]]

\* every prefix of the line, and the line walked backwards
LineRoutes == {SubSeq(LineRoute, 1, n) : n \in 0..8} \cup {Reverse(LineRoute)}

Locations == {<<0, 0>>, <<0, 150>>, <<0, 420>>, <<0, 700>>}

LookAheads == {100, 250}

\* the first loop: the index (from 0) of the vertex closest to the location,
\* on the accumulator <<minDistance, closestIndex>>
RECURSIVE ClosestLoop(_, _, _, _, _)
ClosestLoop(currentLocation, coords, i, minDistance, closestIndex) ==
    IF i >= Len(coords) THEN closestIndex
    ELSE LET dist == calculateDistance(currentLocation[1], currentLocation[2],
                                       coords[i + 1][1], coords[i + 1][2])
         IN IF dist < minDistance
            THEN ClosestLoop(currentLocation, coords, i + 1, dist, i)
            ELSE ClosestLoop(currentLocation, coords, i + 1, minDistance, closestIndex)

\* Math.min(closestIndex + 5, routeCoordinates.length - 1)
LookAheadIndex(closestIndex, length) == Min(closestIndex + 5, length - 1)

findNextWaypoint(currentLocation, coords, lookAheadMeters) ==
    IF Len(coords) = 0 THEN Null
    ELSE LET closestIndex == ClosestLoop(currentLocation, coords, 0, Infinity, 0)
             lookAheadIndex == LookAheadIndex(closestIndex, Len(coords))
             nextWaypoint == coords[lookAheadIndex + 1]
         IN <<[waypoint |-> nextWaypoint,
               index |-> lookAheadIndex,
               distance |-> calculateDistance(currentLocation[1], currentLocation[2],
                                              nextWaypoint[1], nextWaypoint[2])]>>

InitNextWaypoint ==
    /\ CostIdle
    /\ RouteIdle
    /\ PageIdle
    /\ DialogIdle
    /\ ProcessIdle
    /\ ProximityIdle
    /\ WaypointsIdle
    /\ CheckIdle
    /\ nwArgs \in [currentLocation : Locations, routeCoordinates : LineRoutes,
                   lookAheadMeters : LookAheads]
    /\ nwPc = "ready"
    /\ nwResult = <<>>

FindNextWaypoint ==
    /\ nwPc = "ready"
    /\ nwResult' = findNextWaypoint(nwArgs.currentLocation, nwArgs.routeCoordinates,
                                    nwArgs.lookAheadMeters)
    /\ nwPc' = "returned"
    /\ UNCHANGED nwArgs
    /\ UNCHANGED exceptNextWaypoint

NextNextWaypoint == FindNextWaypoint

SpecNextWaypoint == InitNextWaypoint /\ [][NextNextWaypoint]_vars

-----------------------------------------------------------------------------
(* checkProximityToIncidents, called with the default radii.  The incidents  *)
(* of this component lie on one line through the location, so every          *)
(* distance is a whole number of metres.                                     *)

MaxNearby == 2

\* highRadius: number = 100, mediumRadius: number = 300, lowRadius: number = 500
highRadiusDefault == 100
mediumRadiusDefault == 300
lowRadiusDefault == 500

\* places 0, 100, 300, 420 and 500 m from the location <<0, 0>>
ProximityPoints == {<<0, 0>>, <<0, 100>>, <<0, 300>>, <<0, 420>>, <<0, 500>>}

ProximityIncidents ==
    {Incident(id, p, cred) : id \in {"a"}, p \in ProximityPoints, cred \in Credibility}

\* { ...incident, distance }
WithDistance(incident, dist) ==
    [id |-> incident.id, lat |-> incident.lat, lng |-> incident.lng,
     credibility |-> incident.credibility, distance |-> dist]

MayRaiseToLow_always(highestSeverity) == TRUE

\* highestSeverity === 'safe'
MayRaiseToLow(highestSeverity) == highestSeverity = "safe"

\* the if / else if chain that determines the severity
NextSeverity(highestSeverity, incident, dist, highRadius, mediumRadius, lowRadius) ==
    IF dist < highRadius /\ incident.credibility = "high" THEN "high"
    ELSE IF dist < mediumRadius /\ highestSeverity # "high"
    THEN (IF incident.credibility = "high" \/ incident.credibility = "medium"
          THEN "medium" ELSE highestSeverity)
    ELSE IF dist < lowRadius /\ MayRaiseToLow(highestSeverity) THEN "low"
    ELSE highestSeverity

\* one iteration of the loop over the incidents
ProximityStep(acc, currentLocation, incident, highRadius, mediumRadius, lowRadius) ==
    LET dist == calculateDistance(currentLocation[1], currentLocation[2],
                                  incident.lat, incident.lng)
    IN [incidentsInRange |->
            IF dist < lowRadius THEN Append(acc.incidentsInRange, WithDistance(incident, dist))
            ELSE acc.incidentsInRange,
        distance |-> IF dist < acc.distance THEN dist ELSE acc.distance,
        nearestIncident |-> IF dist < acc.distance THEN <<incident>> ELSE acc.nearestIncident,
        severity |-> NextSeverity(acc.severity, incident, dist,
                                  highRadius, mediumRadius, lowRadius)]

RECURSIVE ProximityLoop(_, _, _, _, _, _, _)
ProximityLoop(acc, currentLocation, incs, i, highRadius, mediumRadius, lowRadius) ==
    IF i > Len(incs) THEN acc
    ELSE ProximityLoop(ProximityStep(acc, currentLocation, incs[i],
                                     highRadius, mediumRadius, lowRadius),
                       currentLocation, incs, i + 1, highRadius, mediumRadius, lowRadius)

checkProximityToIncidents(currentLocation, incs, highRadius, mediumRadius, lowRadius) ==
    ProximityLoop(NoProximity, currentLocation, incs, 1, highRadius, mediumRadius, lowRadius)

InitProximity ==
    /\ CostIdle
    /\ RouteIdle
    /\ PageIdle
    /\ DialogIdle
    /\ ProcessIdle
    /\ WaypointsIdle
    /\ CheckIdle
    /\ NextWaypointIdle
    /\ proxArgs \in [currentLocation : {<<0, 0>>},
                     incidents : SeqsUpTo(ProximityIncidents, MaxNearby)]
    /\ proxPc = "ready"
    /\ proxResult = NoProximity

CheckProximity ==
    /\ proxPc = "ready"
    /\ proxResult' = checkProximityToIncidents(proxArgs.currentLocation, proxArgs.incidents,
                         highRadiusDefault, mediumRadiusDefault, lowRadiusDefault)
    /\ proxPc' = "returned"
    /\ UNCHANGED proxArgs
    /\ UNCHANGED exceptProximity

NextProximity == CheckProximity

SpecProximity == InitProximity /\ [][NextProximity]_vars

-----------------------------------------------------------------------------
(* POST /api/report-incident/process (route.ts).  Optional JSON values are   *)
(* Null or a one-element sequence; coordinates are whole numbers of 1e-4     *)
(* degree; a text is a sequence of lines.                                    *)

\* !x for an optional number: absent and 0 are falsy
TruthyNumber(x) == x # Null /\ x[1] # 0

\* !x for an optional string: absent and "" are falsy
TruthyString(x) == x # Null /\ x[1] # ""

\* parseFloat on the strings Nominatim answers with
parseFloat == [s \in {"40.7812", "-73.9665"} |->
                  IF s = "40.7812" THEN 407812 ELSE -739665]

\* { lat: 40.7580, lng: -73.9855 }
DefaultCoordinates == [lat |-> 407580, lng |-> -739855]

\* the conversation ElevenLabs returns: transcript is an array of messages, a
\* string or absent, analysis.transcript_summary a string or absent
ConversationDatas ==
    {[transcript |-> t, transcript_summary |-> s] :
        t \in {[kind |-> "array", value |-> <<>>],
               [kind |-> "array", value |-> <<[role |-> "user", message |-> "tree down"]>>],
               [kind |-> "string", value |-> <<"tree down">>],
               [kind |-> "absent", value |-> <<>>]},
        s \in {Null, <<"a tree fell">>}}

\* the if / else if chain that formats the transcript; an empty array is
\* truthy and joins to the empty text
transcriptTextOf(conversationData) ==
    IF conversationData.transcript.kind = "array"
    THEN [k \in DOMAIN conversationData.transcript.value |->
             <<conversationData.transcript.value[k].role,
               conversationData.transcript.value[k].message>>]
    ELSE IF TruthyString(conversationData.transcript_summary)
    THEN <<conversationData.transcript_summary[1]>>
    ELSE IF conversationData.transcript.kind = "string"
    THEN conversationData.transcript.value
    ELSE <<>>

\* what Gemini's text parses to
ExtractedDatas ==
    {[latitude |-> lat, longitude |-> lng, location_text |-> txt] :
        lat \in {Null, <<0>>, <<407829>>},
        lng \in {Null, <<-739654>>},
        txt \in {Null, <<"Unknown location">>, <<"Central Park">>}}

\* model.generateContent: it throws, or answers a text without JSON, with
\* malformed JSON, or with a JSON object
GeminiAnswers ==
    {[kind |-> k, data |-> Null] : k \in {"throws", "no_json", "bad_json"}}
        \cup {[kind |-> "json", data |-> <<d>>] : d \in ExtractedDatas}

\* what the Nominatim search answers
GeocodeDatas == {<<>>, <<[lat |-> "40.7812", lon |-> "-73.9665"]>>}

\* NextResponse.json(body, { status })
Respond(status, body) ==
    /\ prResponse' = <<[status |-> status, body |-> body]>>
    /\ prPc' = "done"

\* the outer catch: status 500
RespondError == Respond(500, [success |-> FALSE])

\* if (extractedData?.latitude && extractedData?.longitude) coordinates = {...}
GeminiCoordinates(extractedData) ==
    IF extractedData # Null /\ TruthyNumber(extractedData[1].latitude)
           /\ TruthyNumber(extractedData[1].longitude)
    THEN <<[lat |-> extractedData[1].latitude[1], lng |-> extractedData[1].longitude[1]]>>
    ELSE Null

\* !coordinates && extractedData?.location_text && location_text !== "Unknown location"
GeocodeNeeded(coordinates, extractedData) ==
    /\ coordinates = Null
    /\ extractedData # Null
    /\ TruthyString(extractedData[1].location_text)
    /\ extractedData[1].location_text[1] # "Unknown location"

\* if (!coordinates) coordinates = default; then the success response
RespondCoordinates(extractedData, coordinates) ==
    Respond(200, [success |-> TRUE,
                  summary |-> prLocals.transcriptText,
                  incidentData |-> extractedData,
                  coordinates |-> IF coordinates = Null THEN <<DefaultCoordinates>>
                                  ELSE coordinates])

\* the handler is invoked and request.json() settles; with a conversation id
\* the conversation is requested from ElevenLabs
Post(body) ==
    /\ prPc = "idle"
    /\ prLocals' = prLocals
    /\ IF body.kind = "throws" THEN RespondError /\ prRequests' = prRequests
       ELSE IF ~TruthyString(body.conversationId)
       THEN /\ Respond(400, [success |-> FALSE])
            /\ prRequests' = prRequests
       ELSE /\ prPc' = "conversation_fetch"
            /\ prRequests' = Append(prRequests, "elevenlabs")
            /\ prResponse' = prResponse
    /\ UNCHANGED prEnv
    /\ UNCHANGED exceptProcess

\* the ElevenLabs fetch settles: a rejection or a response that is not ok
\* ends in the outer catch
ConversationFetched(outcome) ==
    /\ prPc = "conversation_fetch"
    /\ IF outcome = "ok"
       THEN prPc' = "conversation_json" /\ prResponse' = prResponse
       ELSE RespondError
    /\ UNCHANGED <<prEnv, prLocals, prRequests>>
    /\ UNCHANGED exceptProcess

\* conversationResponse.json() rejects
ConversationJsonThrows ==
    /\ prPc = "conversation_json"
    /\ RespondError
    /\ UNCHANGED <<prEnv, prLocals, prRequests>>
    /\ UNCHANGED exceptProcess

\* conversationResponse.json() resolves: format the transcript; without a
\* transcript 400, without the Gemini key the summary alone, else ask Gemini
ConversationParsed(conversationData) ==
    /\ prPc = "conversation_json"
    /\ LET transcriptText == transcriptTextOf(conversationData)
       IN /\ prLocals' = [prLocals EXCEPT !.transcriptText = transcriptText]
          /\ IF transcriptText = <<>>
             THEN Respond(400, [success |-> FALSE]) /\ prRequests' = prRequests
             ELSE IF ~prEnv.GEMINI_API_KEY
             THEN /\ Respond(200, [success |-> TRUE, summary |-> transcriptText,
                                   location |-> Null])
                  /\ prRequests' = prRequests
             ELSE /\ prPc' = "gemini"
                  /\ prRequests' = Append(prRequests, "gemini")
                  /\ prResponse' = prResponse
    /\ UNCHANGED prEnv
    /\ UNCHANGED exceptProcess

\* model.generateContent settles: parse the answer, take Gemini's
\* coordinates, and either ask Nominatim or respond
GeminiAnswered(answer) ==
    /\ prPc = "gemini"
    /\ IF answer.kind \in {"throws", "bad_json"}
       THEN RespondError /\ UNCHANGED <<prLocals, prRequests>>
       ELSE LET extractedData == answer.data
                coordinates == GeminiCoordinates(extractedData)
            IN /\ prLocals' = [prLocals EXCEPT !.extractedData = extractedData,
                                               !.coordinates = coordinates]
               /\ IF GeocodeNeeded(coordinates, extractedData)
                  THEN /\ prPc' = "geocode_fetch"
                       /\ prRequests' = Append(prRequests, "nominatim")
                       /\ prResponse' = prResponse
                  ELSE /\ RespondCoordinates(extractedData, coordinates)
                       /\ prRequests' = prRequests
    /\ UNCHANGED prEnv
    /\ UNCHANGED exceptProcess

\* the Nominatim fetch settles; a rejection is caught by the inner catch
GeocodeFetched(ok) ==
    /\ prPc = "geocode_fetch"
    /\ IF ok THEN prPc' = "geocode_json" /\ prResponse' = prResponse
       ELSE RespondCoordinates(prLocals.extractedData, prLocals.coordinates)
    /\ UNCHANGED <<prEnv, prLocals, prRequests>>
    /\ UNCHANGED exceptProcess

\* geocodeResponse.json() rejects: the inner catch
GeocodeJsonThrows ==
    /\ prPc = "geocode_json"
    /\ RespondCoordinates(prLocals.extractedData, prLocals.coordinates)
    /\ UNCHANGED <<prEnv, prLocals, prRequests>>
    /\ UNCHANGED exceptProcess

\* geocodeResponse.json() resolves
GeocodeParsed(geocodeData) ==
    /\ prPc = "geocode_json"
    /\ LET coordinates ==
               IF Len(geocodeData) > 0
               THEN <<[lat |-> parseFloat[geocodeData[1].lat],
                       lng |-> parseFloat[geocodeData[1].lon]]>>
               ELSE prLocals.coordinates
       IN /\ prLocals' = [prLocals EXCEPT !.geocodeData = <<geocodeData>>,
                                          !.coordinates = coordinates]
          /\ RespondCoordinates(prLocals.extractedData, coordinates)
    /\ UNCHANGED <<prEnv, prRequests>>
    /\ UNCHANGED exceptProcess

InitProcess ==
    /\ CostIdle
    /\ RouteIdle
    /\ PageIdle
    /\ DialogIdle
    /\ WaypointsIdle
    /\ CheckIdle
    /\ NextWaypointIdle
    /\ ProximityIdle
    /\ prPc = "idle"
    /\ prEnv \in [GEMINI_API_KEY : BOOLEAN]
    /\ prLocals = ProcessLocals
    /\ prRequests = <<>>
    /\ prResponse = Null

NextProcess ==
    \/ Post([kind |-> "throws", conversationId |-> Null])
    \/ \E id \in {Null, <<"conv-1">>} : Post([kind |-> "json", conversationId |-> id])
    \/ \E outcome \in {"throws", "not_ok", "ok"} : ConversationFetched(outcome)
    \/ ConversationJsonThrows
    \/ \E conversationData \in ConversationDatas : ConversationParsed(conversationData)
    \/ \E answer \in GeminiAnswers : GeminiAnswered(answer)
    \/ \E ok \in BOOLEAN : GeocodeFetched(ok)
    \/ GeocodeJsonThrows
    \/ \E geocodeData \in GeocodeDatas : GeocodeParsed(geocodeData)

SpecProcess == InitProcess /\ [][NextProcess]_vars

-----------------------------------------------------------------------------
(* VoiceReportDialog.tsx.  A handler sees the state of the render that made  *)
(* it; state set by a handler is rendered before the next event.  The SDK    *)
(* behind useConversation is not part of the repository: whether it calls    *)
(* the callbacks of the render that called startSession or those of the      *)
(* latest render is left open (sdk.fresh).  The transcript and               *)
(* isAgentSpeaking are left out.                                             *)

\* the dialog may be opened this many times
MaxOpens == 2

\* what the handlers of a render see
Render(w) ==
    [status |-> w.dlg.status, conversationId |-> w.dlg.conversationId,
     sdkStatus |-> w.sdk.status]

World == [dlg |-> dlg, sdk |-> sdk, stops |-> stops, calls |-> calls, log |-> dlgLog]

\* conversation.endSession(): a connected session starts to disconnect
endSession(w) ==
    IF w.sdk.status = "connected" THEN [w EXCEPT !.sdk.status = "disconnecting"] ELSE w

\* stopConversation after its await: setStatus("idle"), setConversationId(null)
ResetState(w) == [w EXCEPT !.dlg.status = "idle", !.dlg.conversationId = Null]

\* the open effect with open = false: stopConversation() up to its await
StopEffect(w) ==
    IF w.sdk.status = "connected"
    THEN [endSession(w) EXCEPT !.stops = @ + 1]
    ELSE ResetState(w)

\* setShowVoiceReportDialog(false); the effect runs when open changed
Hide(w) == IF w.dlg.open THEN StopEffect([w EXCEPT !.dlg.open = FALSE]) ELSE w

\* the onClose prop: () => setShowVoiceReportDialog(false)
onCloseProp(w) == Hide(w)

\* handleEndCall up to its first await, in the render it belongs to
handleEndCall(w, render) ==
    IF render.conversationId = Null
    THEN onCloseProp(w)
    ELSE IF render.sdkStatus = "connected"
    THEN [endSession([w EXCEPT !.dlg.status = "processing"]) EXCEPT !.calls =
             Append(@, [pc |-> "endSession", conversationId |-> render.conversationId])]
    ELSE [ResetState(w) EXCEPT !.calls =
             Append(@, [pc |-> "timeout", conversationId |-> render.conversationId])]

DisconnectEndsCall_always(status) == TRUE

\* if (status === "active")
DisconnectEndsCall(status) == status = "active"

\* onDisconnect, of the render the SDK holds the callbacks of
onDisconnect(w, render) ==
    IF DisconnectEndsCall(render.status) THEN handleEndCall(w, render) ELSE w

\* the render whose callbacks the SDK calls; the latest render may or may
\* not show the SDK's new status yet
CallbackRenders(w, sdkStatusBefore) ==
    IF w.sdk.fresh
    THEN {[Render(w) EXCEPT !.sdkStatus = s] : s \in {sdkStatusBefore, w.sdk.status}}
    ELSE {w.sdk.captured}

ClosesAfter_successOnly(outcome) == outcome = "reported"

\* finally { onCloseProp() }
ClosesAfter(outcome) == TRUE

\* the end of handleEndCall number i: it leaves the invocations in flight;
\* log.unclosed counts the invocations that returned without calling onClose
Finish(w, i, outcome) ==
    IF ClosesAfter(outcome)
    THEN [onCloseProp(w) EXCEPT !.calls = RemoveAt(@, i)]
    ELSE [w EXCEPT !.calls = RemoveAt(@, i), !.log.unclosed = @ + 1]

Becomes(w) ==
    /\ dlg' = w.dlg
    /\ sdk' = w.sdk
    /\ stops' = w.stops
    /\ calls' = w.calls
    /\ dlgLog' = w.log

\* the page shows the dialog: the open effect calls startConversation, which
\* sets the status and asks for the microphone
Open ==
    /\ ~dlg.open
    /\ dlgLog.opens < MaxOpens
    /\ starts' = Append(starts, [pc |-> "getUserMedia", render |-> Render(World)])
    /\ Becomes([World EXCEPT !.dlg.open = TRUE, !.dlg.status = "connecting",
                             !.log.opens = @ + 1])
    /\ UNCHANGED exceptDialog

\* getUserMedia settles
MicrophoneSettled(i, granted) ==
    /\ starts[i].pc = "getUserMedia"
    /\ IF granted
       THEN /\ starts' = [starts EXCEPT ![i].pc = "fetch"]
            /\ Becomes(World)
       ELSE /\ starts' = RemoveAt(starts, i)
            /\ Becomes([World EXCEPT !.dlg.status = "idle"])
    /\ UNCHANGED exceptDialog

\* the fetch of /api/report-incident/start settles
StartFetched(i, ok) ==
    /\ starts[i].pc = "fetch"
    /\ IF ok
       THEN /\ starts' = [starts EXCEPT ![i].pc = "json"]
            /\ Becomes(World)
       ELSE /\ starts' = RemoveAt(starts, i)
            /\ Becomes([World EXCEPT !.dlg.status = "idle"])
    /\ UNCHANGED exceptDialog

\* response.json() settles; conversation.startSession is called, with the
\* callbacks of the render startConversation belongs to
StartParsed(i, ok) ==
    /\ starts[i].pc = "json"
    /\ sdk.status # "disconnecting"
    /\ IF ~ok
       THEN /\ starts' = RemoveAt(starts, i)
            /\ Becomes([World EXCEPT !.dlg.status = "idle"])
       ELSE /\ starts' = [starts EXCEPT ![i].pc = "startSession"]
            /\ IF sdk.status = "disconnected"
               THEN Becomes([World EXCEPT !.sdk.status = "connecting",
                                          !.sdk.captured = starts[i].render])
               ELSE Becomes(World)
    /\ UNCHANGED exceptDialog

\* the session connects: onConnect
SessionConnected ==
    /\ sdk.status = "connecting"
    /\ Becomes([World EXCEPT !.sdk.status = "connected",
                             !.sdk.sessions = @ + 1,
                             !.dlg.status = "active",
                             !.dlg.conversationId = <<sdk.sessions + 1>>])
    /\ UNCHANGED starts
    /\ UNCHANGED exceptDialog

\* the session fails to connect: startSession rejects, the catch of every
\* startConversation that awaits it sets the status
SessionFailed ==
    /\ sdk.status = "connecting"
    /\ starts' = SelectSeq(starts, LAMBDA start : start.pc # "startSession")
    /\ Becomes([World EXCEPT !.sdk.status = "disconnected", !.dlg.status = "idle"])
    /\ UNCHANGED exceptDialog

\* startSession resolves
StartResolved(i) ==
    /\ starts[i].pc = "startSession"
    /\ sdk.status # "connecting"
    /\ starts' = RemoveAt(starts, i)
    /\ Becomes(World)
    /\ UNCHANGED exceptDialog

\* the agent ends the call: the SDK calls onDisconnect
AgentDisconnects ==
    /\ sdk.status = "connected"
    /\ LET w == [World EXCEPT !.sdk.status = "disconnected"]
       IN \E render \in CallbackRenders(w, sdk.status) : Becomes(onDisconnect(w, render))
    /\ UNCHANGED starts
    /\ UNCHANGED exceptDialog

\* a session ended by endSession is disconnected: the SDK calls onDisconnect
SessionEnded ==
    /\ sdk.status = "disconnecting"
    /\ LET w == [World EXCEPT !.sdk.status = "disconnected"]
       IN \E render \in CallbackRenders(w, sdk.status) : Becomes(onDisconnect(w, render))
    /\ UNCHANGED starts
    /\ UNCHANGED exceptDialog

\* the user clicks the X button (enabled unless the status is "processing")
\* or "End Call & Submit Report" (shown while the status is "active")
Click ==
    /\ dlg.open
    /\ dlg.status # "processing"
    /\ Becomes(handleEndCall(World, Render(World)))
    /\ UNCHANGED starts
    /\ UNCHANGED exceptDialog

\* the endSession awaited by the stopConversation of handleEndCall number i
\* settles; a rejection is caught and resets nothing
StopResumed(i, ok) ==
    /\ calls[i].pc = "endSession"
    /\ sdk.status # "disconnecting"
    /\ LET w == [World EXCEPT !.calls[i].pc = "timeout"]
       IN Becomes(IF ok THEN ResetState(w) ELSE w)
    /\ UNCHANGED starts
    /\ UNCHANGED exceptDialog

\* the endSession awaited by a stopConversation of the open effect settles
StopEffectResumed(ok) ==
    /\ stops > 0
    /\ sdk.status # "disconnecting"
    /\ LET w == [World EXCEPT !.stops = @ - 1]
       IN Becomes(IF ok THEN ResetState(w) ELSE w)
    /\ UNCHANGED starts
    /\ UNCHANGED exceptDialog

\* the 3 s timer fires: the conversation is posted to /api/report-incident/process
TimeoutElapsed(i) ==
    /\ calls[i].pc = "timeout"
    /\ Becomes([World EXCEPT !.calls[i].pc = "fetch",
                             !.log.posted = Append(@, calls[i].conversationId)])
    /\ UNCHANGED starts
    /\ UNCHANGED exceptDialog

\* the fetch settles
ProcessFetched(i, ok) ==
    /\ calls[i].pc = "fetch"
    /\ Becomes(IF ok THEN [World EXCEPT !.calls[i].pc = "json"]
               ELSE Finish(World, i, "failed"))
    /\ UNCHANGED starts
    /\ UNCHANGED exceptDialog

\* response.json() settles: it throws, data.success is false, coordinates or
\* incidentData are missing, or the incident is reported (the page's
\* handleIncidentReported hides the dialog itself)
ProcessParsed(i, outcome) ==
    /\ calls[i].pc = "json"
    /\ Becomes(IF outcome = "reported"
               THEN Finish(Hide([World EXCEPT !.log.reported =
                                    Append(@, calls[i].conversationId)]), i, outcome)
               ELSE Finish(World, i, outcome))
    /\ UNCHANGED starts
    /\ UNCHANGED exceptDialog

InitDialog ==
    /\ CostIdle
    /\ RouteIdle
    /\ PageIdle
    /\ WaypointsIdle
    /\ CheckIdle
    /\ NextWaypointIdle
    /\ ProximityIdle
    /\ ProcessIdle
    /\ dlg = [open |-> FALSE, status |-> "idle", conversationId |-> Null]
    /\ \E fresh \in BOOLEAN :
          sdk = [status |-> "disconnected", fresh |-> fresh, sessions |-> 0,
                 captured |-> [status |-> "idle", conversationId |-> Null,
                               sdkStatus |-> "disconnected"]]
    /\ starts = <<>>
    /\ calls = <<>>
    /\ stops = 0
    /\ dlgLog = [opens |-> 0, posted |-> <<>>, reported |-> <<>>, unclosed |-> 0]

AsyncStep ==
    \/ \E i \in DOMAIN calls, ok \in BOOLEAN : StopResumed(i, ok)
    \/ \E ok \in BOOLEAN : StopEffectResumed(ok)
    \/ SessionEnded
    \/ \E i \in DOMAIN calls : TimeoutElapsed(i)
    \/ \E i \in DOMAIN calls, ok \in BOOLEAN : ProcessFetched(i, ok)
    \/ \E i \in DOMAIN calls,
          outcome \in {"throws", "failure", "no_coordinates", "reported"} :
              ProcessParsed(i, outcome)

NextDialog ==
    \/ Open
    \/ \E i \in DOMAIN starts, granted \in BOOLEAN : MicrophoneSettled(i, granted)
    \/ \E i \in DOMAIN starts, ok \in BOOLEAN : StartFetched(i, ok)
    \/ \E i \in DOMAIN starts, ok \in BOOLEAN : StartParsed(i, ok)
    \/ SessionConnected
    \/ SessionFailed
    \/ \E i \in DOMAIN starts : StartResolved(i)
    \/ AgentDisconnects
    \/ Click
    \/ AsyncStep

SpecDialog == InitDialog /\ [][NextDialog]_vars

\* pending timers and requests complete
SpecDialogFair == SpecDialog /\ WF_vars(AsyncStep)

-----------------------------------------------------------------------------
(* Reference definitions for the properties of the cost model *)

Evaluated == costResult # NoResult

\* the least distance of an incident to a vertex of the route, as a set minimum
VertexDistances(inc) ==
    {calculateDistance(routeCoordinates[k][1], routeCoordinates[k][2], inc.lat, inc.lng) :
        k \in DOMAIN routeCoordinates}

NearestVertexDistance(inc) ==
    IF routeCoordinates = <<>> THEN Infinity
    ELSE CHOOSE d \in VertexDistances(inc) : \A e \in VertexDistances(inc) : d <= e

NearRoute(inc) == NearestVertexDistance(inc) <= 600

\* the penalty table of the specification
ClaimedPenalty(inc) ==
    LET d == NearestVertexDistance(inc)
    IN IF d > 600 THEN 0
       ELSE IF inc.credibility = "medium" THEN 7000
       ELSE IF inc.credibility = "low" THEN 3000
       ELSE IF d <= 200 THEN 500000
       ELSE IF d <= 400 THEN 250000
       ELSE 100000

\* what incident i adds: the cost with it minus the cost of the list without it
Contribution(i) ==
    costResult.cost
        - calculateRouteCost(routeCoordinates, distance, duration, RemoveAt(incidents, i)).cost

UniqueId(i) == \A j \in DOMAIN incidents : j # i => incidents[j].id # incidents[i].id

\* C1: with an empty incident list the cost is exactly distance + duration
C1_EmptyIncidentsCost ==
    (Evaluated /\ incidents = <<>>) => costResult.cost = distance + duration

C1_Witness ==
    /\ Evaluated
    /\ incidents = <<>>
    /\ Len(routeCoordinates) = 2
    /\ distance = 1000 /\ duration = 120
    /\ costResult.cost = 1120

C3_BeyondRadiusAddsNothing ==
    Evaluated =>
        \A i \in DOMAIN incidents :
            (\A k \in DOMAIN routeCoordinates :
                calculateDistance(routeCoordinates[k][1], routeCoordinates[k][2],
                                  incidents[i].lat, incidents[i].lng) > 600)
            => Contribution(i) = 0

C3_Witness ==
    /\ Evaluated
    /\ Len(incidents) = 2
    /\ routeCoordinates # <<>>
    /\ incidents[1].credibility = "high" /\ NearestVertexDistance(incidents[1]) = 601
    /\ incidents[2].credibility = "medium" /\ NearestVertexDistance(incidents[2]) = 601
    /\ costResult.cost = distance + duration

NearIds == {incidents[i].id : i \in {j \in DOMAIN incidents : NearRoute(incidents[j])}}

\* the first incident of the list with this id inside the detection radius
FirstNear(id) ==
    LET hits == {i \in DOMAIN incidents : incidents[i].id = id /\ NearRoute(incidents[i])}
    IN incidents[CHOOSE i \in hits : \A j \in hits : i <= j]

RECURSIVE SumPenalties(_)
SumPenalties(ids) ==
    IF ids = {} THEN 0
    ELSE LET id == CHOOSE x \in ids : TRUE
         IN ClaimedPenalty(FirstNear(id)) + SumPenalties(ids \ {id})

\* C5: each incident is penalised at most once per evaluation, however many
\* route vertices are inside its radius, and incidents are de-duplicated by id:
\* the cost is the base plus one penalty per id inside the radius, no id is
\* penalised twice
C5_OncePerIncidentId ==
    Evaluated =>
        /\ costResult.cost = distance + duration + SumPenalties(NearIds)
        /\ \A m, n \in DOMAIN costResult.penalised :
              m # n => costResult.penalised[m].id # costResult.penalised[n].id
        /\ Len(costResult.penalised) = Cardinality(NearIds)

C5_Witness ==
    /\ Evaluated
    /\ Len(routeCoordinates) = 2
    /\ routeCoordinates[1] # routeCoordinates[2]
    /\ Len(incidents) = 2
    /\ incidents[1].id = incidents[2].id
    /\ \A i \in DOMAIN incidents : Cardinality(
            {k \in DOMAIN routeCoordinates :
                calculateDistance(routeCoordinates[k][1], routeCoordinates[k][2],
                                  incidents[i].lat, incidents[i].lng) <= 600}) = 2
    /\ Len(costResult.penalised) = 1

\* C6: two incidents with different ids at the same coordinate inside the
\* radius are each penalised; a list of two such incidents costs
\* distance + duration plus both penalties (3,000 + 3,000 for two low ones)
C6_SameCoordinateBothPenalised ==
    Evaluated =>
        \A i, j \in DOMAIN incidents :
            (/\ i < j
             /\ incidents[i].id # incidents[j].id
             /\ incidents[i].lat = incidents[j].lat
             /\ incidents[i].lng = incidents[j].lng
             /\ NearRoute(incidents[i])
             /\ UniqueId(i) /\ UniqueId(j))
            => /\ Contribution(i) = ClaimedPenalty(incidents[i])
               /\ Contribution(j) = ClaimedPenalty(incidents[j])
               /\ Len(incidents) = 2 =>
                     costResult.cost = distance + duration
                          + ClaimedPenalty(incidents[i]) + ClaimedPenalty(incidents[j])
               /\ (Len(incidents) = 2 /\ incidents[i].credibility = "low"
                      /\ incidents[j].credibility = "low")
                  => costResult.cost = distance + duration + 3000 + 3000

C6_Witness ==
    /\ Evaluated
    /\ Len(incidents) = 2
    /\ incidents[1].id # incidents[2].id
    /\ incidents[1].lat = incidents[2].lat /\ incidents[1].lng = incidents[2].lng
    /\ incidents[1].credibility = "low" /\ incidents[2].credibility = "low"
    /\ NearRoute(incidents[1])
    /\ distance = 1000 /\ duration = 120
    /\ costResult.cost = 7120

\* the step inserted incident incidents'[pos] into the list
IsInsertionAt(pos) ==
    /\ Len(incidents') = Len(incidents) + 1
    /\ pos \in DOMAIN incidents'
    /\ incidents' = InsertAt(incidents, pos, incidents'[pos])

C8_CostAtLeastBase == Evaluated => costResult.cost >= distance + duration

C8_Witness ==
    /\ Evaluated
    /\ costResult.penalised # <<>>
    /\ distance = 1000 /\ duration = 120
    /\ costResult.cost > 1120

-----------------------------------------------------------------------------
(* Properties of getRoute *)

IsRequestTo(e, provider) == e.provider = provider /\ e.type = "request"

\* C9: when the primary provider (Valhalla) fails, getRoute requests the
\* secondary provider (OSRM) before it can report null: a Valhalla failure is
\* followed at once by the OSRM request for the same endpoints and mode, and a
\* call that ended with null has requested OSRM
C9_FallbackBeforeNotFound ==
    /\ \A i \in DOMAIN grEvents :
          grEvents[i] = Settled("valhalla", "failure") =>
              /\ i < Len(grEvents)
              /\ grEvents[i + 1] = OSRMRequest(grArgs.start, grArgs.end, grArgs.mode)
    /\ (grPc = "done" /\ grResult = Null) =>
          \E i \in DOMAIN grEvents : IsRequestTo(grEvents[i], "osrm")

C9_Witness ==
    /\ grPc = "done"
    /\ grResult = Null
    /\ grEvents[2] = Settled("valhalla", "failure")
    /\ IsRequestTo(grEvents[3], "osrm")
    /\ grEvents[4] = Settled("osrm", "failure")

RequestsTo(provider) ==
    Cardinality({i \in DOMAIN grEvents : IsRequestTo(grEvents[i], provider)})

\* C11: nothing is retried: during one getRoute call each provider is
\* requested at most once, so at most two provider requests are made, however
\* the requests fail
C11_NoRetry ==
    /\ RequestsTo("valhalla") <= 1
    /\ RequestsTo("osrm") <= 1
    /\ RequestsTo("valhalla") + RequestsTo("osrm") <= 2

C11_Witness ==
    /\ grPc = "done"
    /\ grResponses = <<FetchThrows("valhalla"), FetchThrows("osrm")>>
    /\ RequestsTo("valhalla") = 1
    /\ RequestsTo("osrm") = 1
    /\ grResult = Null

ProviderFailed(provider) ==
    \E i \in DOMAIN grEvents : grEvents[i] = Settled(provider, "failure")

\* the route a provider function makes of a parsed body
ProducedFrom(response) ==
    IF response.provider = "valhalla" THEN ValhallaResult(response.data)
    ELSE OSRMResult(response.data)

\* C12: a completed getRoute call returned null exactly when both providers
\* failed, and every non-null result is the route a provider function made of
\* a body the call received, unchanged
C12_NullIffBothFail ==
    grPc = "done" =>
        /\ grResult = Null <=> (ProviderFailed("valhalla") /\ ProviderFailed("osrm"))
        /\ grResult # Null =>
              \E k \in DOMAIN grResponses :
                  /\ grResponses[k].kind = "json"
                  /\ grResult = ProducedFrom(grResponses[k])

C12_Witness ==
    /\ grPc = "done"
    /\ ProviderFailed("valhalla")
    /\ grResult # Null
    /\ grResponses[Len(grResponses)].kind = "json"
    /\ grResponses[Len(grResponses)].provider = "osrm"
    /\ grResult = OSRMResult(grResponses[Len(grResponses)].data)
    /\ Len(grResult[1].coordinates) = 2

IsPrefix(s, t) == Len(s) <= Len(t) /\ SubSeq(t, 1, Len(s)) = s

C14_EmptyRouteIsNoRoute ==
    (grPc = "done" /\ grResult # Null) => Len(grResult[1].coordinates) >= 1

\* a high-credibility incident within the detection radius of a vertex of route
HighIncidentNear(route, incs) ==
    \E i \in DOMAIN incs :
        /\ incs[i].credibility = "high"
        /\ \E k \in DOMAIN route[1].coordinates :
              calculateDistance(route[1].coordinates[k][1], route[1].coordinates[k][2],
                                incs[i].lat, incs[i].lng) <= INCIDENT_DETECTION_RADIUS

IsWaypointRequest(e) == e.type = "request" /\ Len(e.locations) > 2

\* C15: getRoute generates the direct route plus waypoint variations around
\* high-credibility incidents: a completed call between two different places
\* whose returned route passes a high-credibility incident has requested a
\* route through at least one avoidance waypoint
C15_VariationsGenerated ==
    ( /\ grPc = "done"
      /\ grResult # Null
      /\ grArgs.start # grArgs.end
      /\ HighIncidentNear(grResult, grArgs.incidents) ) =>
        \E i \in DOMAIN grEvents : IsWaypointRequest(grEvents[i])

IsRoute(x) ==
    /\ x # Null
    /\ DOMAIN x[1] = {"coordinates", "distance", "duration", "steps"}

\* C16: every provider-level failure is absorbed: the getRoute promise is
\* never rejected, and a completed call yields a route or null
C16_NeverThrows ==
    /\ grPc # "rejected"
    /\ grPc = "done" => (grResult = Null \/ IsRoute(grResult))

C16_Witness ==
    /\ grPc = "done"
    /\ grResponses = <<FetchResolves("valhalla", TRUE), JsonThrows("valhalla"),
                       FetchThrows("osrm")>>
    /\ grResult = Null

Range(s) == {s[k] : k \in DOMAIN s}

\* C17: once handleIncidentReported has added a voice-reported incident, every
\* handleCalculateRoute invoked after it passes to getRoute an incident list
\* that contains the incident
C17_ReportedIncidentsReachGetRoute ==
    \A i \in DOMAIN calcs :
        calcs[i].pc = "getRoute" =>
            \A incident \in Range(calcs[i].reportedBefore) :
                incident \in Range(calcs[i].allIncidents)

ListIndex(i, d, s) == 12 * (i - 1) + 4 * (d - 1) + s

Last(list) == list[Len(list)]

\* the offset of a waypoint from a point, and which side of the start-to-end
\* line it lies on (positive: the side of <<-startToEndLng, startToEndLat>>)
Offset(waypoint, lat, lng) == <<waypoint.lat - lat, waypoint.lng - lng>>

Side(offset) ==
    offset[1] * (-(wpArgs.end[2] - wpArgs.start[2]))
        + offset[2] * (wpArgs.end[1] - wpArgs.start[1])

SquaredLength(offset) == offset[1] * offset[1] + offset[2] * offset[2]

C20_HighWithinRadiusSelected ==
    checkPc = "returned" =>
        nearbyIncidents =
            SelectSeq(checkArgs.incidents,
                      LAMBDA inc :
                          /\ inc.credibility = "high"
                          /\ \E k \in DOMAIN checkArgs.routeCoordinates :
                                calculateDistance(checkArgs.routeCoordinates[k][1],
                                                  checkArgs.routeCoordinates[k][2],
                                                  inc.lat, inc.lng)
                                    <= INCIDENT_DETECTION_RADIUS)

\* distance from the location of the findNextWaypoint call to vertex k (from 0)
VertexDistance(k) ==
    calculateDistance(nwArgs.currentLocation[1], nwArgs.currentLocation[2],
                      nwArgs.routeCoordinates[k + 1][1], nwArgs.routeCoordinates[k + 1][2])

VertexIndices == 0..(Len(nwArgs.routeCoordinates) - 1)

\* the first vertex no other vertex is closer than
NearestVertex ==
    CHOOSE k \in VertexIndices :
        \A j \in VertexIndices : VertexDistance(k) < VertexDistance(j)
                                     \/ (VertexDistance(k) = VertexDistance(j) /\ k <= j)

\* the upcoming vertices within the look-ahead distance
UpcomingWithinLookAhead ==
    {k \in VertexIndices :
        k >= NearestVertex /\ VertexDistance(k) <= nwArgs.lookAheadMeters}

\* C21: findNextWaypoint returns null for an empty route; for a non-empty
\* route it returns a route point at or after the vertex nearest to the
\* current location, and when upcoming points lie within lookAheadMeters of
\* the location it returns the closest of them
C21_ClosestUpcomingWithinLookAhead ==
    nwPc = "returned" =>
        IF nwArgs.routeCoordinates = <<>> THEN nwResult = Null
        ELSE /\ nwResult # Null
             /\ nwResult[1].index \in VertexIndices
             /\ nwResult[1].index >= NearestVertex
             /\ nwResult[1].waypoint = nwArgs.routeCoordinates[nwResult[1].index + 1]
             /\ nwResult[1].distance = VertexDistance(nwResult[1].index)
             /\ UpcomingWithinLookAhead # {} =>
                   /\ nwResult[1].index \in UpcomingWithinLookAhead
                   /\ \A k \in UpcomingWithinLookAhead :
                         nwResult[1].distance <= VertexDistance(k)

\* safe < low < medium < high
SeverityRank == [safe |-> 0, low |-> 1, medium |-> 2, high |-> 3]

\* the severity an incident triggers when it is the only incident of the list
SingleSeverity(incident) ==
    checkProximityToIncidents(proxArgs.currentLocation, <<incident>>,
        highRadiusDefault, mediumRadiusDefault, lowRadiusDefault).severity

\* the rearrangements of a sequence
Rearrangements(s) ==
    {[k \in 1..Len(s) |-> s[f[k]]] :
        f \in {g \in [1..Len(s) -> 1..Len(s)] : \A i, j \in 1..Len(s) : g[i] = g[j] => i = j}}

\* C22: checkProximityToIncidents returns the highest severity (safe < low <
\* medium < high) that a single incident of the list triggers, and every
\* rearrangement of the list gives the same severity
C22_HighestSingleSeverity ==
    proxPc = "returned" =>
        /\ \A i \in DOMAIN proxArgs.incidents :
              SeverityRank[SingleSeverity(proxArgs.incidents[i])]
                  <= SeverityRank[proxResult.severity]
        /\ \/ proxResult.severity = "safe"
           \/ \E i \in DOMAIN proxArgs.incidents :
                 SingleSeverity(proxArgs.incidents[i]) = proxResult.severity
        /\ \A p \in Rearrangements(proxArgs.incidents) :
              checkProximityToIncidents(proxArgs.currentLocation, p,
                  highRadiusDefault, mediumRadiusDefault, lowRadiusDefault).severity
                      = proxResult.severity

C22_Witness ==
    /\ proxPc = "returned"
    /\ Len(proxArgs.incidents) = 2
    /\ SingleSeverity(proxArgs.incidents[1]) = "medium"
    /\ SingleSeverity(proxArgs.incidents[2]) = "low"
    /\ proxResult.severity = "medium"

\* C25: whenever an incident is strictly closer than lowRadius (it is in
\* incidentsInRange), the severity checkProximityToIncidents returns is not
\* safe
C25_InRangeNotSafe ==
    (proxPc = "returned" /\ proxResult.incidentsInRange # <<>>) =>
        proxResult.severity # "safe"

\* Gemini gave coordinates: its answer has a latitude and a longitude
GeminiGaveCoordinates ==
    /\ prLocals.extractedData # Null
    /\ prLocals.extractedData[1].latitude # Null
    /\ prLocals.extractedData[1].longitude # Null

NominatimConsulted == \E k \in DOMAIN prRequests : prRequests[k] = "nominatim"

NominatimGeocoded == prLocals.geocodeData # Null /\ Len(prLocals.geocodeData[1]) > 0

\* C23: when the transcript is non-empty, the Gemini key is configured and no
\* exception occurs, the response of POST /api/report-incident/process has
\* success = true and non-null coordinates: those Gemini provided, else the
\* Nominatim geocoding of location_text, else the default; Nominatim is
\* consulted only when Gemini gave no coordinates
C23_CoordinatePrecedence ==
    ( /\ prPc = "done"
      /\ prLocals.transcriptText # <<>>
      /\ prEnv.GEMINI_API_KEY
      /\ prResponse[1].status # 500 ) =>
        /\ prResponse[1].status = 200
        /\ prResponse[1].body.success
        /\ prResponse[1].body.coordinates # Null
        /\ NominatimConsulted => ~GeminiGaveCoordinates
        /\ prResponse[1].body.coordinates =
              IF GeminiGaveCoordinates
              THEN <<[lat |-> prLocals.extractedData[1].latitude[1],
                      lng |-> prLocals.extractedData[1].longitude[1]]>>
              ELSE IF NominatimGeocoded
              THEN <<[lat |-> parseFloat[prLocals.geocodeData[1][1].lat],
                      lng |-> parseFloat[prLocals.geocodeData[1][1].lon]]>>
              ELSE <<DefaultCoordinates>>

\* the ids of the list are pairwise distinct
DistinctIds(incs) == \A i, j \in DOMAIN incs : i # j => incs[i].id # incs[j].id

C27_EndCallCloses == []<>(calls = <<>> /\ dlgLog.unclosed = 0)

C27_Witness ==
    /\ calls = <<>>
    /\ dlgLog.unclosed = 0
    /\ Len(dlgLog.posted) = 2
    /\ Len(dlgLog.reported) = 1
    /\ ~dlg.open

\* C28: once the dialog is closed and every step of startConversation and
\* stopConversation has completed, no ElevenLabs session is connected and the
\* status is "idle", even when the dialog was closed while connecting
C28_ClosedMeansIdle ==
    ( /\ ~dlg.open
      /\ dlgLog.opens > 0
      /\ starts = <<>>
      /\ stops = 0
      /\ calls = <<>>
      /\ sdk.status \notin {"connecting", "disconnecting"} ) =>
        /\ sdk.status # "connected"
        /\ dlg.status = "idle"

\* C29: when several handleCalculateRoute calls overlap, after all of them
\* have completed routeData is the result of the most recently started one
\* (the displayed route is a route of currentTransportMode), and
\* isCalculatingRoute is false only when no calculation is in flight
C29_LatestCalculationWins ==
    /\ (calcs = <<>> /\ home.routeData # Null) =>
          home.routeData[1].duration = PageRoute(home.currentTransportMode).duration
    /\ ~home.isCalculatingRoute => calcs = <<>>

\* C30: after handleStopNavigation isNavigating is false, watchId is null and
\* currentLocation is null, and currentLocation stays null until navigation
\* is started again, even if a geolocation callback requested by
\* handleStartNavigation is delivered after the stop
C30_StoppedMeansNoLocation ==
    ~home.isNavigating =>
        /\ home.watchId = Null
        /\ home.currentLocation = Null

====
